---- MODULE Spec2Model ----
(***************************************************************************)
(* A model of aosc-findupdate's version-resolution engine: the Git         *)
(* smart-HTTP reference-advertisement decoder (src/checker/git.rs), the    *)
(* six update checkers and the dispatcher (src/checker/*.rs).              *)
(*                                                                         *)
(* Byte strings are sequences of byte values (0..255); S(<<"a","b">>)      *)
(* writes one from its characters.                                         *)
(***************************************************************************)
EXTENDS Integers, Sequences, FiniteSets, TLC

VARIABLES
    input,      \* the advertisement handed to the decoder: its lines, trailer, bytes
    pktpc,      \* position of the decoder run: "input", "parsed", "collected"
    manifest,   \* result of parse_git_manifest on the input bytes
    refs,       \* result of collect_git_refs on the input bytes
    config,     \* the Config handed to check_update
    pc,         \* position of check_update: "start", "check", "response", "done"
    checker,    \* the strategy check_update constructed
    built,      \* number of strategies constructed
    invoked,    \* number of calls of UpdateChecker::check
    github_token, \* GITHUB_TOKEN of the environment: "unread", "set", "unset"
    requests,   \* the HTTP requests sent, in order
    resp,       \* the response to the request
    result,     \* what check_update returns
    call,       \* a function called by itself: its name and arguments
    outcome,    \* what the call returned
    files,      \* main: the spec files of the batch, in the order of the list
    dry_run,    \* main: whether the spec files are left as they are
    tree,       \* the VER each spec file of the list holds
    current,    \* main: the progress counter (AtomicUsize)
    reported,   \* the number of each "[n/total] Checking" line, by item
    workers,    \* the rayon threads: idle, or the item a thread is mapping
    completed,  \* what the closure returned, by item; Pending until it has
    results,    \* main: the collected Vec, once collect() has returned
    job,        \* check_update_worker on one package: its position and locals,
                \* the spec file, and the number of writes to it
    main        \* main: its position, the command line and the ArgMatches

pktvars == <<input, pktpc, manifest, refs>>

chkvars ==
    <<config, pc, checker, built, invoked, github_token, requests, resp, result>>

funvars == <<call, outcome>>

batchvars ==
    <<files, dry_run, tree, current, reported, workers, completed, results, job, main>>

vars == <<pktvars, chkvars, funvars, batchvars>>

\* no function is called by itself
NoCall == [fn |-> "none"]

NoReturn == [returned |-> FALSE]

\* no package is being checked step by step
NoJob == [pc |-> "none"]

\* main is not running
NoMain == [pc |-> "none"]

\* main is not running
NoBatch ==
    /\ files = <<>>
    /\ dry_run = TRUE
    /\ tree = <<>>
    /\ current = 0
    /\ reported = <<>>
    /\ workers = <<>>
    /\ completed = <<>>
    /\ results = [collected |-> FALSE]
    /\ job = NoJob
    /\ main = NoMain

----------------------------------------------------------------------------
(* Bytes and byte strings *)

Ascii ==
    (" " :> 32) @@ ("!" :> 33) @@ ("#" :> 35) @@ ("$" :> 36) @@
    ("(" :> 40) @@
    (")" :> 41) @@ ("*" :> 42) @@ ("+" :> 43) @@
    ("-" :> 45) @@ ("." :> 46) @@ ("/" :> 47) @@ ("0" :> 48) @@
    ("1" :> 49) @@ ("2" :> 50) @@ ("3" :> 51) @@ ("4" :> 52) @@
    ("5" :> 53) @@ ("6" :> 54) @@ ("7" :> 55) @@ ("8" :> 56) @@
    ("9" :> 57) @@ (":" :> 58) @@ (";" :> 59) @@ ("?" :> 63) @@
    ("=" :> 61) @@
    ("A" :> 65) @@ ("B" :> 66) @@ ("C" :> 67) @@ ("D" :> 68) @@
    ("E" :> 69) @@ ("F" :> 70) @@ ("G" :> 71) @@ ("H" :> 72) @@
    ("I" :> 73) @@ ("J" :> 74) @@ ("K" :> 75) @@ ("L" :> 76) @@
    ("M" :> 77) @@ ("N" :> 78) @@ ("O" :> 79) @@ ("P" :> 80) @@
    ("Q" :> 81) @@ ("R" :> 82) @@ ("S" :> 83) @@ ("T" :> 84) @@
    ("U" :> 85) @@ ("V" :> 86) @@ ("W" :> 87) @@ ("X" :> 88) @@
    ("Y" :> 89) @@ ("Z" :> 90) @@ ("[" :> 91) @@ ("]" :> 93) @@
    ("^" :> 94) @@ ("_" :> 95) @@ ("a" :> 97) @@
    ("b" :> 98) @@ ("c" :> 99) @@ ("d" :> 100) @@ ("e" :> 101) @@
    ("f" :> 102) @@ ("g" :> 103) @@ ("h" :> 104) @@ ("i" :> 105) @@
    ("j" :> 106) @@ ("k" :> 107) @@ ("l" :> 108) @@ ("m" :> 109) @@
    ("n" :> 110) @@ ("o" :> 111) @@ ("p" :> 112) @@ ("q" :> 113) @@
    ("r" :> 114) @@ ("s" :> 115) @@ ("t" :> 116) @@ ("u" :> 117) @@
    ("v" :> 118) @@ ("w" :> 119) @@ ("x" :> 120) @@ ("y" :> 121) @@
    ("z" :> 122) @@ ("{" :> 123) @@ ("|" :> 124) @@ ("}" :> 125) @@
    ("~" :> 126) @@ ("\t" :> 9) @@ ("\n" :> 10) @@ ("\r" :> 13)

\* the byte string of a tuple of characters
S(chars) == [i \in DOMAIN chars |-> Ascii[chars[i]]]

Drop(s, n) == SubSeq(s, n + 1, Len(s))

Take(s, n) == SubSeq(s, 1, n)

\* slice::starts_with / slice::strip_prefix
starts_with(s, p) == Len(s) >= Len(p) /\ Take(s, Len(p)) = p

\* slice::ends_with
ends_with(s, p) == Len(s) >= Len(p) /\ Drop(s, Len(s) - Len(p)) = p

Min(set) == CHOOSE x \in set : \A y \in set : x <= y

\* number of leading bytes of s that belong to set (take_while)
PrefixLen(s, set) ==
    LET stops == {i \in 1..Len(s) : s[i] \notin set}
    IN  IF stops = {} THEN Len(s) ELSE Min(stops) - 1

\* number of leading bytes of s that do not belong to set (take_till)
PrefixLenNot(s, set) ==
    LET stops == {i \in 1..Len(s) : s[i] \in set}
    IN  IF stops = {} THEN Len(s) ELSE Min(stops) - 1

RECURSIVE Flatten(_)
Flatten(seqs) ==
    IF seqs = <<>> THEN <<>> ELSE Head(seqs) \o Flatten(Tail(seqs))

\* u8::is_hex_digit: 0-9, A-F, a-f
HexDigitBytes == (48..57) \cup (65..70) \cup (97..102)

\* first_tuple's predicate: c.is_hex_digit() || c == b'#'
TokenBytes == HexDigitBytes \cup {35}

\* winnow space1: space and tab
SpaceBytes == {32, 9}

\* winnow multispace1: space, tab, carriage return, line feed
MultispaceBytes == {32, 9, 13, 10}

\* winnow till_line_ending stops at a carriage return or a line feed
LineEndingBytes == {13, 10}

----------------------------------------------------------------------------
(* Parser combinators for the Git on-wire format.  A parser takes the      *)
(* remaining input and returns [ok, out, rest].                            *)

POk(out, rest) == [ok |-> TRUE, out |-> out, rest |-> rest]

PErr(rest) == [ok |-> FALSE, out |-> <<>>, rest |-> rest]

\* take_while(1.., |c| c.is_hex_digit() || c == b'#')
first_tuple(i) ==
    LET n == PrefixLen(i, TokenBytes)
    IN  IF n >= 1 THEN POk(Take(i, n), Drop(i, n)) ELSE PErr(i)

\* one or more spaces or tabs
space1(i) ==
    LET n == PrefixLen(i, SpaceBytes)
    IN  IF n >= 1 THEN POk(Take(i, n), Drop(i, n)) ELSE PErr(i)

\* a line terminator of exactly one byte
multispace1_single(i) ==
    IF i # <<>> /\ i[1] \in MultispaceBytes
    THEN POk(Take(i, 1), Drop(i, 1))
    ELSE PErr(i)

\* one or more spaces, tabs, carriage returns or line feeds
multispace1(i) ==
    LET n == PrefixLen(i, MultispaceBytes)
    IN  IF n >= 1 THEN POk(Take(i, n), Drop(i, n)) ELSE PErr(i)

\* everything up to "\n" or "\r\n" (or the end of input); a carriage return
\* that is not followed by a line feed is an error
till_line_ending(i) ==
    LET n == PrefixLenNot(i, LineEndingBytes)
        rest == Drop(i, n)
    IN  IF rest # <<>> /\ rest[1] = 13 /\ ~(Len(rest) >= 2 /\ rest[2] = 10)
        THEN PErr(rest)
        ELSE POk(Take(i, n), rest)

\* separated_pair(first_tuple, space1, till_line_ending)
kv_pair(i) ==
    LET value(k, v) ==
            IF ~v.ok THEN PErr(v.rest) ELSE POk(<<k.out, v.out>>, v.rest)
        separator(k, sp) ==
            IF ~sp.ok THEN PErr(sp.rest)
            ELSE value(k, till_line_ending(sp.rest))
        key(k) ==
            IF ~k.ok THEN PErr(k.rest) ELSE separator(k, space1(k.rest))
    IN  key(first_tuple(i))

\* terminated(kv_pair, multispace1)
single_line(i) ==
    LET terminator(kv, ws) ==
            IF ~ws.ok THEN PErr(ws.rest) ELSE POk(kv.out, ws.rest)
        pair(kv) ==
            IF ~kv.ok THEN PErr(kv.rest)
            ELSE terminator(kv, multispace1(kv.rest))
    IN  pair(kv_pair(i))

\* the loop of winnow's repeat(1.., f) after the first success: a failing
\* f ends the repetition, the input is reset to where f started, and the
\* items accumulated so far are the result
RECURSIVE repeat_more(_, _)
repeat_more(acc, i) ==
    LET item(r) ==
            IF ~r.ok THEN POk(acc, i)
            ELSE IF Len(r.rest) = Len(i) THEN PErr(i)
            ELSE repeat_more(Append(acc, r.out), r.rest)
    IN  item(single_line(i))

\* repeat(1.., single_line)
parse_git_manifest(i) ==
    LET item(r) ==
            IF ~r.ok THEN PErr(r.rest) ELSE repeat_more(<<r.out>>, r.rest)
    IN  item(single_line(i))

----------------------------------------------------------------------------
(* Reference classification (collect_git_refs) *)

\* a UTF-8 continuation byte
IsCont(s, k) == Len(s) >= k /\ s[k] \in 128..191

\* std::str::from_utf8(s).is_ok()
RECURSIVE from_utf8_ok(_)
from_utf8_ok(s) ==
    IF s = <<>> THEN TRUE
    ELSE LET b == s[1]
         IN  IF b <= 127 THEN from_utf8_ok(Drop(s, 1))
             ELSE IF b \in 194..223
                  THEN IsCont(s, 2) /\ from_utf8_ok(Drop(s, 2))
             ELSE IF b \in 224..239
                  THEN /\ IsCont(s, 2) /\ IsCont(s, 3)
                       /\ (b = 224 => s[2] >= 160)
                       /\ (b = 237 => s[2] <= 159)
                       /\ from_utf8_ok(Drop(s, 3))
             ELSE IF b \in 240..244
                  THEN /\ IsCont(s, 2) /\ IsCont(s, 3) /\ IsCont(s, 4)
                       /\ (b = 240 => s[2] >= 144)
                       /\ (b = 244 => s[2] <= 143)
                       /\ from_utf8_ok(Drop(s, 4))
             ELSE FALSE

RefsTagsPrefix ==
    S(<<"r","e","f","s","/","t","a","g","s","/">>)

RefsHeadsPrefix ==
    S(<<"r","e","f","s","/","h","e","a","d","s","/">>)

PeeledSuffix ==
    S(<<"^","{","}">>)

\* GitRefs::Tag(name)
Tag(name) == [kind |-> "Tag", name |-> name]

\* GitRefs::Heads(name, rev)
Heads(name, rev) == [kind |-> "Heads", name |-> name, rev |-> rev]

\* the classification without the test for the peeled-tag suffix
classify_keep_peeled(x) ==
    IF starts_with(x[2], RefsTagsPrefix)
    THEN LET name == Drop(x[2], Len(RefsTagsPrefix))
         IN  IF from_utf8_ok(name) THEN <<Tag(name)>> ELSE <<>>
    ELSE IF starts_with(x[2], RefsHeadsPrefix)
         THEN LET head_name == Drop(x[2], Len(RefsHeadsPrefix))
              IN  IF from_utf8_ok(head_name) /\ from_utf8_ok(x[1])
                  THEN <<Heads(head_name, x[1])>>
                  ELSE <<>>
    ELSE <<>>

\* the closure of collect_git_refs' filter_map: the references (none or
\* one) that the decoded pair x = <<token, payload>> contributes
classify(x) ==
    IF ends_with(x[2], PeeledSuffix) THEN <<>>
    ELSE IF starts_with(x[2], RefsTagsPrefix)
         THEN LET name == Drop(x[2], Len(RefsTagsPrefix))
              IN  IF from_utf8_ok(name) THEN <<Tag(name)>> ELSE <<>>
    ELSE IF starts_with(x[2], RefsHeadsPrefix)
         THEN LET head_name == Drop(x[2], Len(RefsHeadsPrefix))
              IN  IF from_utf8_ok(head_name) /\ from_utf8_ok(x[1])
                  THEN <<Heads(head_name, x[1])>>
                  ELSE <<>>
    ELSE <<>>

RECURSIVE filter_map_classify(_)
filter_map_classify(tuples) ==
    IF tuples = <<>> THEN <<>>
    ELSE classify(Head(tuples)) \o filter_map_classify(Tail(tuples))

\* collect_git_refs: [ok, refs]
collect_git_refs(i) ==
    LET classified(tuples) ==
            IF ~tuples.ok THEN [ok |-> FALSE, refs |-> <<>>]
            ELSE [ok |-> TRUE, refs |-> filter_map_classify(tuples.out)]
    IN  classified(parse_git_manifest(i))

----------------------------------------------------------------------------
(* Reference advertisements: the lines a Git server sends (pkt-line        *)
(* framing: four hex digits of length, the object id, a space, the         *)
(* reference name, optional capabilities after a NUL, a line feed).        *)

HexChar(d) == IF d < 10 THEN 48 + d ELSE 87 + d

\* the four-hex-digit length prefix of a pkt-line of n bytes
Hex4(n) ==
    <<HexChar((n \div 4096) % 16), HexChar((n \div 256) % 16),
      HexChar((n \div 16) % 16), HexChar(n % 16)>>

OidA ==
    S(<<"d","b","3","5","8","a","2","9","9","3","b","e","0","e","0","a","a",
        "3","8","6","4","e","d","3","2","9","0","1","0","5","d","d","4","a",
        "5","4","4","c","3","5">>)

OidB ==
    S(<<"f","e","6","8","e","3","8","0","2","b","2","3","8","b","9","6","4",
        "9","0","0","a","c","a","c","9","4","2","2","a","7","0","e","2","9",
        "5","4","8","2","2","4">>)

ServiceLine ==
    S(<<"0","0","1","e","#"," ","s","e","r","v","i","c","e","=","g","i","t",
        "-","u","p","l","o","a","d","-","p","a","c","k","\n">>)

FlushPkt ==
    S(<<"0","0","0","0">>)

CapsText ==
    S(<<"m","u","l","t","i","_","a","c","k">>)

LF == S(<<"\n">>)

CRLF == S(<<"\r", "\n">>)

SP == S(<<" ">>)

\* a reference line as the server frames it; tok and payload are the two
\* fields the framing puts on the line, refname the reference it names
\* (the payload up to the NUL that introduces the capabilities)
PktLine(prefix, oid, refname, caps, eol) ==
    LET payload == refname \o caps
        n == 4 + Len(oid) + 1 + Len(payload) + 1
    IN  [bytes |-> prefix \o Hex4(n) \o oid \o SP \o payload \o eol,
         wellformed |-> TRUE,
         tok |-> prefix \o Hex4(n) \o oid,
         oid |-> oid,
         payload |-> payload,
         refname |-> refname]

\* bytes that are no line of the grammar, wherever they stand
Malformed(bytes) ==
    [bytes |-> bytes, wellformed |-> FALSE, tok |-> <<>>, oid |-> <<>>,
     payload |-> <<>>, refname |-> <<>>]

\* the names the modelled upstreams use for branches, tags and versions;
\* date is a 14-digit version, which no i32 holds
Names ==
    [head |-> S(<<"H","E","A","D">>),
     master |-> S(<<"m","a","s","t","e","r">>),
     master_next |-> S(<<"m","a","s","t","e","r","-","n","e","x","t">>),
     v19 |-> S(<<"1",".","9">>),
     v110 |-> S(<<"1",".","1","0">>),
     a_cr_b |-> S(<<"a","\r","b">>),
     v9 |-> S(<<"9">>),
     v10 |-> S(<<"1","0">>),
     vv9 |-> S(<<"v","9">>),
     date |-> S(<<"2","0","2","4","0","1","3","1","1","2","3","4","5","6">>),
     v100 |-> S(<<"1","0",".","0">>),
     v19a |-> S(<<"1",".","9","a">>),
     v19B |-> S(<<"1",".","9","B">>),
     beta |-> S(<<"b","e","t","a">>),
     v |-> S(<<"v">>),
     vv10 |-> S(<<"v","1","0">>)]

NoBytes == <<>>

\* the lines the modelled servers send, by name
LineTable ==
    LET Heads_(n) == RefsHeadsPrefix \o n
        Tags_(n) == RefsTagsPrefix \o n
    IN
    [service |->
        [bytes |-> ServiceLine, wellformed |-> TRUE,
         tok |-> Take(ServiceLine, 5), oid |-> NoBytes,
         payload |-> SubSeq(ServiceLine, 7, Len(ServiceLine) - 1),
         refname |-> SubSeq(ServiceLine, 7, Len(ServiceLine) - 1)],
     head |-> PktLine(FlushPkt, OidA, Names.head, <<0>> \o CapsText, LF),
     master |-> PktLine(NoBytes, OidA, Heads_(Names.master), NoBytes, LF),
     master_caps |->
        PktLine(NoBytes, OidA, Heads_(Names.master), <<0>> \o CapsText, LF),
     tag19 |-> PktLine(NoBytes, OidB, Tags_(Names.v19), NoBytes, LF),
     tag19_peeled |->
        PktLine(NoBytes, OidA, Tags_(Names.v19) \o PeeledSuffix, NoBytes, LF),
     tag110_crlf |->
        PktLine(NoBytes, OidA, Tags_(Names.v110), NoBytes, CRLF \o LF),
     tag_empty |-> PktLine(NoBytes, OidB, Tags_(NoBytes), NoBytes, LF),
     tag_ff |-> PktLine(NoBytes, OidB, Tags_(<<255>>), NoBytes, LF),
     master_next |->
        PktLine(NoBytes, OidB, Heads_(Names.master_next), NoBytes, LF),
     tag9 |-> PktLine(NoBytes, OidA, Tags_(Names.v9), NoBytes, LF),
     tag10 |-> PktLine(NoBytes, OidB, Tags_(Names.v10), NoBytes, LF),
     tagdate |-> PktLine(NoBytes, OidA, Tags_(Names.date), NoBytes, LF),
     bad |-> Malformed(S(<<"!", "b", "a", "d", "\n">>)),
     bad_cr |->
        Malformed(PktLine(NoBytes, OidB, Tags_(Names.a_cr_b), NoBytes, LF).bytes)]

\* the lines the decoder is run on by itself
LineNames ==
    {"service", "head", "master", "master_caps", "tag19", "tag19_peeled",
     "tag110_crlf", "tag_empty", "tag_ff", "bad", "bad_cr"}

MaxLines == 3

SeqsUpTo(set, n) == UNION {[1..k -> set] : k \in 0..n}

\* the advertisements the decoder is run on: up to MaxLines lines and an
\* optional trailing flush packet
Advertisements ==
    {[lines |-> ls, trailer |-> t] :
        ls \in SeqsUpTo(LineNames, MaxLines), t \in {NoBytes, FlushPkt}}

\* the bytes of an advertisement
Bytes(adv) ==
    Flatten([k \in DOMAIN adv.lines |-> LineTable[adv.lines[k]].bytes])
        \o adv.trailer

NoResult == [ok |-> FALSE, out |-> <<>>, rest |-> <<>>]

NoRefs == [ok |-> FALSE, refs |-> <<>>]

----------------------------------------------------------------------------
(* VersionComparator: version_compare over the version-compare crate *)

DigitBytes == 48..57

\* char::is_alphanumeric on the ASCII bytes
AlnumBytes == DigitBytes \cup (65..90) \cup (97..122)

\* i32::MAX
I32Max == 2147483647

\* str::parse::<i32>() on a string of digits: [ok, n]; a value above
\* i32::MAX and the empty string do not parse
RECURSIVE parse_digits(_, _)
parse_digits(s, acc) ==
    IF s = <<>> THEN [ok |-> TRUE, n |-> acc]
    ELSE IF s[1] \notin DigitBytes THEN [ok |-> FALSE, n |-> 0]
    ELSE LET d == s[1] - 48
         IN  IF acc > (I32Max - d) \div 10 THEN [ok |-> FALSE, n |-> 0]
             ELSE parse_digits(Drop(s, 1), acc * 10 + d)

parse_i32(s) ==
    IF s = <<>> THEN [ok |-> FALSE, n |-> 0] ELSE parse_digits(s, 0)

\* str::split(|c| !c.is_alphanumeric()) without the empty pieces
RECURSIVE split_alnum(_)
split_alnum(s) ==
    IF s = <<>> THEN <<>>
    ELSE LET n == PrefixLen(s, AlnumBytes)
         IN  IF n = 0 THEN split_alnum(Drop(s, 1))
             ELSE <<Take(s, n)>> \o split_alnum(Drop(s, n))

Number(n) == [kind |-> "Number", n |-> n, t |-> <<>>]

Text(t) == [kind |-> "Text", n |-> 0, t |-> t]

\* the parts one piece of a version string contributes: a number, a text,
\* or a number followed by a text (digits suffixed by text); a number that
\* overflows i32 is a text
piece_parts(piece) ==
    LET suffixed(k, lead) ==
            IF k >= 1 /\ piece[k + 1] \notin DigitBytes /\ lead.ok
            THEN <<Number(lead.n), Text(Drop(piece, k))>>
            ELSE <<Text(piece)>>
        digits(k) == suffixed(k, parse_i32(Take(piece, k)))
        parts(whole) ==
            IF whole.ok THEN <<Number(whole.n)>>
            ELSE digits(PrefixLen(Take(piece, Len(piece) - 1), DigitBytes))
    IN  parts(parse_i32(piece))

RECURSIVE pieces_parts(_)
pieces_parts(pieces) ==
    IF pieces = <<>> THEN <<>>
    ELSE piece_parts(Head(pieces)) \o pieces_parts(Tail(pieces))

\* version_compare::Version::from: [ok, parts]; a version with parts but
\* without any number part is none
Version_from(s) ==
    LET version(parts) ==
            IF /\ parts # <<>>
               /\ \A i \in DOMAIN parts : parts[i].kind # "Number"
            THEN [ok |-> FALSE, parts |-> <<>>]
            ELSE [ok |-> TRUE, parts |-> parts]
    IN  version(pieces_parts(split_alnum(s)))

\* str::to_lowercase on the ASCII bytes
to_lowercase(s) ==
    [i \in DOMAIN s |-> IF s[i] \in 65..90 THEN s[i] + 32 ELSE s[i]]

\* Ord::cmp on byte strings (str::cmp): lexicographic by byte, a proper
\* prefix is less
RECURSIVE str_cmp(_, _)
str_cmp(a, b) ==
    IF a = <<>> /\ b = <<>> THEN "Equal"
    ELSE IF a = <<>> THEN "Less"
    ELSE IF b = <<>> THEN "Greater"
    ELSE IF a[1] < b[1] THEN "Less"
    ELSE IF a[1] > b[1] THEN "Greater"
    ELSE str_cmp(Drop(a, 1), Drop(b, 1))

Flip(c) == IF c = "Less" THEN "Greater" ELSE IF c = "Greater" THEN "Less" ELSE c

\* version_compare's compare_iter: the parts are compared in order, numbers
\* by value and texts by their lower-case form; a number and a text at the
\* same place decide nothing; of the parts that the other version lacks a
\* zero decides nothing, another number makes this version the greater and
\* a text makes it the lesser
RECURSIVE compare_iter(_, _)
compare_iter(p, q) ==
    IF p = <<>>
    THEN IF q = <<>> THEN "Equal" ELSE Flip(compare_iter(q, p))
    ELSE IF q = <<>>
         THEN IF p[1].kind = "Text" THEN "Less"
              ELSE IF p[1].n # 0 THEN "Greater"
              ELSE compare_iter(Tail(p), q)
    ELSE LET c == IF p[1].kind = "Number" /\ q[1].kind = "Number"
                  THEN IF p[1].n < q[1].n THEN "Less"
                       ELSE IF p[1].n > q[1].n THEN "Greater" ELSE "Equal"
                  ELSE IF p[1].kind = "Text" /\ q[1].kind = "Text"
                  THEN str_cmp(to_lowercase(p[1].t), to_lowercase(q[1].t))
                  ELSE "Equal"
         IN  IF c # "Equal" THEN c ELSE compare_iter(Tail(p), Tail(q))

\* version_compare::compare(a, b): [ok, cmp]; an error when either string
\* is no version
compare(a, b) ==
    LET versions(va, vb) ==
            IF va.ok /\ vb.ok
            THEN [ok |-> TRUE, cmp |-> compare_iter(va.parts, vb.parts)]
            ELSE [ok |-> FALSE, cmp |-> "Equal"]
    IN  versions(Version_from(a), Version_from(b))

\* version_compare with a fallback that does not look at the strings
version_compare_no_fallback(a, b) ==
    LET fallback(ret) == IF ret.ok THEN ret.cmp ELSE "Less"
    IN  fallback(compare(a, b))

\* version_compare(a, b): the semantic comparison, with the byte-wise
\* comparison of the two strings as the fallback
version_compare(a, b) ==
    LET fallback(ret) == IF ret.ok THEN ret.cmp ELSE str_cmp(a, b)
    IN  fallback(compare(a, b))

----------------------------------------------------------------------------
(* VersionExtractor: extract_versions over the regex crate.  A compiled    *)
(* pattern is a sequence of atoms (a byte class repeated min..max times,   *)
(* greedy; max = -1 is unbounded; at most one atom is capture group 1; an   *)
(* optional atom may also be left out) between optional anchors.           *)

Max(set) == CHOOSE x \in set : \A y \in set : x >= y

Atom(set, min, max, group) ==
    [set |-> set, min |-> min, max |-> max, group |-> group,
     optional |-> FALSE]

\* (atom)? : the atom, or nothing; a group that matched nothing did not
\* take part in the match
Optional(atom) == [atom EXCEPT !.optional = TRUE]

\* ^[0-9.]+$
PatPlain ==
    S(<<"^", "[", "0", "-", "9", ".", "]", "+", "$">>)

\* ^v?([0-9.]*)$
PatCapture ==
    S(<<"^", "v", "?", "(", "[", "0", "-", "9", ".", "]", "*", ")", "$">>)

\* v([0-9.]*);
PatScan ==
    S(<<"v", "(", "[", "0", "-", "9", ".", "]", "*", ")", ";">>)

\* v[0-9.]*;
PatScanPlain ==
    S(<<"v", "[", "0", "-", "9", ".", "]", "*", ";">>)

\* ^v([0-9.]+)?$
PatOptional ==
    S(<<"^", "v", "(", "[", "0", "-", "9", ".", "]", "+", ")", "?", "$">>)

\* ( : an unclosed group
PatInvalid ==
    S(<<"(">>)

VersionBytes == DigitBytes \cup {46}

\* Regex::new(pattern): [ok, re]; the patterns of the model, compiled
Regex_new(pattern) ==
    IF pattern = PatPlain
    THEN [ok |-> TRUE,
          re |-> [start |-> TRUE, end |-> TRUE,
                  atoms |-> <<Atom(VersionBytes, 1, -1, FALSE)>>]]
    ELSE IF pattern = PatCapture
    THEN [ok |-> TRUE,
          re |-> [start |-> TRUE, end |-> TRUE,
                  atoms |-> <<Atom({118}, 0, 1, FALSE),
                              Atom(VersionBytes, 0, -1, TRUE)>>]]
    ELSE IF pattern = PatOptional
    THEN [ok |-> TRUE,
          re |-> [start |-> TRUE, end |-> TRUE,
                  atoms |-> <<Atom({118}, 1, 1, FALSE),
                              Optional(Atom(VersionBytes, 1, -1, TRUE))>>]]
    ELSE IF pattern = PatScan
    THEN [ok |-> TRUE,
          re |-> [start |-> FALSE, end |-> FALSE,
                  atoms |-> <<Atom({118}, 1, 1, FALSE),
                              Atom(VersionBytes, 0, -1, TRUE),
                              Atom({59}, 1, 1, FALSE)>>]]
    ELSE IF pattern = PatScanPlain
    THEN [ok |-> TRUE,
          re |-> [start |-> FALSE, end |-> FALSE,
                  atoms |-> <<Atom({118}, 1, 1, FALSE),
                              Atom(VersionBytes, 0, -1, FALSE),
                              Atom({59}, 1, 1, FALSE)>>]]
    ELSE [ok |-> FALSE,
          re |-> [start |-> FALSE, end |-> FALSE, atoms |-> <<>>]]

\* Regex::captures_len: the groups of the pattern, group 0 included
captures_len(re) ==
    1 + Cardinality({k \in DOMAIN re.atoms : re.atoms[k].group})

NoMatch == [ok |-> FALSE, from |-> 0, to |-> 0, g1 |-> <<>>, has1 |-> FALSE]

\* the match of atoms k.. of re at position pos of text, the longest
\* repetition of each atom first: [ok, to, g1, has1]
RECURSIVE match_atoms(_, _, _, _)
match_atoms(re, k, text, pos) ==
    IF k > Len(re.atoms)
    THEN IF re.end /\ pos # Len(text) + 1 THEN NoMatch
         ELSE [ok |-> TRUE, from |-> pos, to |-> pos, g1 |-> <<>>,
               has1 |-> FALSE]
    ELSE LET a == re.atoms[k]
             taken(n, m) ==
                IF a.group /\ ~(a.optional /\ n = 0)
                THEN [m EXCEPT !.g1 = SubSeq(text, pos, pos + n - 1),
                               !.has1 = TRUE]
                ELSE m
             longest(n) == taken(n, match_atoms(re, k + 1, text, pos + n))
             choice(fits) == IF fits = {} THEN NoMatch ELSE longest(Max(fits))
             upto(most) ==
                choice({n \in (a.min..most) \cup {z \in {0} : a.optional} :
                            match_atoms(re, k + 1, text, pos + n).ok})
             repeated(run) ==
                upto(IF a.max >= 0 /\ a.max < run THEN a.max ELSE run)
         IN  repeated(PrefixLen(Drop(text, pos - 1), a.set))

\* the leftmost match of re in text at or after position from
find_at(re, text, from) ==
    LET at(p) == [match_atoms(re, 1, text, p) EXCEPT !.from = p]
        leftmost(hits) == IF hits = {} THEN NoMatch ELSE at(Min(hits))
        among(starts) ==
            leftmost({p \in starts : match_atoms(re, 1, text, p).ok})
    IN  among(IF re.start THEN {p \in {1} : p >= from}
              ELSE from..(Len(text) + 1))

\* Regex::is_match
is_match(re, text) == find_at(re, text, 1).ok

\* Regex::captures: the leftmost match with its groups
captures(re, text) == find_at(re, text, 1)

\* Regex::captures_iter: the successive non-overlapping matches
RECURSIVE captures_iter_from(_, _, _)
captures_iter_from(re, text, from) ==
    LET found(m) ==
            IF ~m.ok THEN <<>>
            ELSE <<m>> \o
                 (IF m.to > Len(text) THEN <<>>
                  ELSE captures_iter_from(re, text,
                            IF m.to = m.from THEN m.to + 1 ELSE m.to))
    IN  found(find_at(re, text, from))

captures_iter(re, text) == captures_iter_from(re, text, 1)

\* extract_versions that keeps the whole string where the pattern has a
\* capture group
extract_versions_whole(pattern, collection) ==
    LET compiled(regex) ==
            LET Matches(x) == is_match(regex.re, x)
            IN  IF ~regex.ok THEN [ok |-> FALSE, out |-> <<>>]
                ELSE [ok |-> TRUE, out |-> SelectSeq(collection, Matches)]
    IN  compiled(Regex_new(pattern))

\* extract_versions(pattern, collection): [ok, out]
extract_versions(pattern, collection) ==
    LET compiled(regex) ==
            LET group1(c) == IF c.ok /\ c.has1 THEN <<c.g1>> ELSE <<>>
                first_groups ==
                    Flatten([k \in DOMAIN collection |->
                                group1(captures(regex.re, collection[k]))])
                Matches(x) == is_match(regex.re, x)
            IN  IF ~regex.ok THEN [ok |-> FALSE, out |-> <<>>]
                ELSE IF captures_len(regex.re) > 1
                THEN [ok |-> TRUE, out |-> first_groups]
                ELSE [ok |-> TRUE, out |-> SelectSeq(collection, Matches)]
    IN  compiled(Regex_new(pattern))

----------------------------------------------------------------------------
(* slice::sort_unstable_by *)

Permutations1(n) ==
    {p \in [1..n -> 1..n] : \A i, j \in 1..n : p[i] = p[j] => i = j}

\* the comparators the checkers sort with: the closure
\* |b, a| version_compare(a, b) ("descending") and the closure
\* |a, b| version_compare(a, b) ("ascending"), applied to (x, y)
closure(order, x, y) ==
    IF order = "descending" THEN version_compare(y, x)
    ELSE version_compare(x, y)

\* whether the closure is a total order on the elements of list, as
\* sort_unstable_by requires of its comparator
IsTotalOrderOn(list, order) ==
    LET E == {list[k] : k \in DOMAIN list}
    IN  /\ \A a, b \in E : closure(order, a, b) = Flip(closure(order, b, a))
        /\ \A a, b, c \in E :
              (closure(order, a, b) # "Greater"
                    /\ closure(order, b, c) # "Greater")
                  => closure(order, a, c) # "Greater"

\* the orders sort_unstable_by(closure) may leave list in: the permutations
\* in which no element is Greater than a later one (equal elements in any
\* order); with a comparator that is no total order the resulting order is
\* unspecified
sort_unstable_by(list, order) ==
    LET n == Len(list)
        all == {[k \in 1..n |-> list[p[k]]] : p \in Permutations1(n)}
    IN  IF IsTotalOrderOn(list, order)
        THEN {l \in all : \A i, j \in 1..n :
                             i < j => closure(order, l[i], l[j]) # "Greater"}
        ELSE all

----------------------------------------------------------------------------
(* Config and the construction of the six checkers *)

\* the value of a key the Config does not hold (HashMap::get is None)
Absent == <<-1>>

Keys ==
    {"type", "id", "stable_only", "repo", "instance", "pattern",
     "sort_version", "branch", "url"}

\* config.get(key)
Get(cfg, key) == IF key \in DOMAIN cfg THEN cfg[key] ELSE Absent

Ok(v) == [ok |-> TRUE, val |-> v, err |-> ""]

Err(e) == [ok |-> FALSE, val |-> <<>>, err |-> e]

\* the result of a check that has not returned
Running == [ok |-> FALSE, val |-> <<>>, err |-> "(running)"]

TyAnitya == S(<<"a", "n", "i", "t", "y", "a">>)

TyGitHub == S(<<"g", "i", "t", "h", "u", "b">>)

TyGitLab == S(<<"g", "i", "t", "l", "a", "b">>)

TyGitWeb == S(<<"g", "i", "t", "w", "e", "b">>)

TyGit == S(<<"g", "i", "t">>)

TyHTML == S(<<"h", "t", "m", "l">>)

StrTrue == S(<<"t", "r", "u", "e">>)

\* the fields of the six checker structs; a field a struct does not have,
\* or an Option that is None, is Absent
NoChecker ==
    [ty |-> "none", id |-> 0, stable_only |-> FALSE, repo |-> Absent,
     instance |-> Absent, pattern |-> Absent, sort_version |-> FALSE,
     branch |-> Absent, url |-> Absent]

Built(c) == [ok |-> TRUE, checker |-> c, err |-> ""]

NotBuilt(e) == [ok |-> FALSE, checker |-> NoChecker, err |-> e]

\* a lookup that answers for a key the Config does not hold
must_have_lenient(cfg, key) == Ok(Get(cfg, key))

\* must_have!(config, key, description)
must_have(cfg, key) ==
    IF Get(cfg, key) # Absent THEN Ok(Get(cfg, key))
    ELSE Err("Please specify " \o key \o "!")

RECURSIVE digits_value(_, _)
digits_value(s, acc) ==
    IF s = <<>> THEN acc ELSE digits_value(Drop(s, 1), acc * 10 + (s[1] - 48))

\* str::parse::<usize>(): an optional + and one or more digits
parse_usize(s) ==
    LET body == IF s # <<>> /\ s[1] = 43 THEN Drop(s, 1) ELSE s
    IN  IF body = <<>> \/ \E k \in DOMAIN body : body[k] \notin DigitBytes
        THEN [ok |-> FALSE, n |-> 0]
        ELSE [ok |-> TRUE, n |-> digits_value(body, 0)]

\* AnityaChecker::new
AnityaChecker_new(cfg) ==
    LET id == must_have(cfg, "id")
        n == parse_usize(id.val)
        stable_only ==
            IF Get(cfg, "stable_only") # Absent
            THEN Get(cfg, "stable_only") = StrTrue
            ELSE TRUE
    IN  IF ~id.ok THEN NotBuilt(id.err)
        ELSE IF ~n.ok THEN NotBuilt("ParseIntError")
        ELSE Built([NoChecker EXCEPT !.ty = "anitya", !.id = n.n,
                                     !.stable_only = stable_only])

\* config.get("sort_version").map(|s| s == "true").unwrap_or(false)
sort_version_of(cfg) ==
    IF Get(cfg, "sort_version") # Absent
    THEN Get(cfg, "sort_version") = StrTrue
    ELSE FALSE

\* GitHubChecker::new
GitHubChecker_new(cfg) ==
    LET repo == must_have(cfg, "repo")
    IN  IF ~repo.ok THEN NotBuilt(repo.err)
        ELSE Built([NoChecker EXCEPT !.ty = "github", !.repo = repo.val,
                                     !.pattern = Get(cfg, "pattern"),
                                     !.branch = Get(cfg, "branch"),
                                     !.sort_version = sort_version_of(cfg)])

\* API_ENDPOINT of gitlab.rs: https://gitlab.com
GitLabDefaultInstance == S(<<"g", "i", "t", "l", "a", "b", ".", "c", "o", "m">>)

\* GitLabChecker::new
GitLabChecker_new(cfg) ==
    LET repo == must_have(cfg, "repo")
    IN  IF ~repo.ok THEN NotBuilt(repo.err)
        ELSE Built([NoChecker EXCEPT !.ty = "gitlab", !.repo = repo.val,
                        !.instance = IF Get(cfg, "instance") # Absent
                                     THEN Get(cfg, "instance")
                                     ELSE GitLabDefaultInstance,
                        !.pattern = Get(cfg, "pattern"),
                        !.sort_version = sort_version_of(cfg)])

\* GitWebChecker::new
GitWebChecker_new(cfg) ==
    LET url == must_have(cfg, "url")
    IN  IF ~url.ok THEN NotBuilt(url.err)
        ELSE Built([NoChecker EXCEPT !.ty = "gitweb", !.url = url.val,
                                     !.pattern = Get(cfg, "pattern")])

\* GitChecker::new
GitChecker_new(cfg) ==
    LET url == must_have(cfg, "url")
    IN  IF ~url.ok THEN NotBuilt(url.err)
        ELSE Built([NoChecker EXCEPT !.ty = "git", !.url = url.val,
                                     !.pattern = Get(cfg, "pattern"),
                                     !.branch = Get(cfg, "branch")])

\* HTMLChecker::new
HTMLChecker_new(cfg) ==
    LET url == must_have(cfg, "url")
        pattern == must_have(cfg, "pattern")
    IN  IF ~url.ok THEN NotBuilt(url.err)
        ELSE IF ~pattern.ok THEN NotBuilt(pattern.err)
        ELSE Built([NoChecker EXCEPT !.ty = "html", !.url = url.val,
                                     !.pattern = pattern.val])

\* check_update, up to the call of checker.check: the strategy that the
\* type key selects, constructed from the Config
select_checker(cfg) ==
    LET ty == Get(cfg, "type")
    IN  IF ty = Absent THEN NotBuilt("Upstream type not specified.")
        ELSE IF ty = TyAnitya THEN AnityaChecker_new(cfg)
        ELSE IF ty = TyGitHub THEN GitHubChecker_new(cfg)
        ELSE IF ty = TyGitLab THEN GitLabChecker_new(cfg)
        ELSE IF ty = TyGitWeb THEN GitWebChecker_new(cfg)
        ELSE IF ty = TyGit THEN GitChecker_new(cfg)
        ELSE IF ty = TyHTML THEN HTMLChecker_new(cfg)
        ELSE NotBuilt("Unknown type")

----------------------------------------------------------------------------
(* The Configs check_update is called with *)

\* the Config holding the keys of r whose value is not Absent
MkConfig(r) == [k \in {x \in DOMAIN r : r[x] # Absent} |-> r[k]]

\* the Configs with one of the given values (or, for Absent, none) at each key
Shape(ty, id, stable, repo, inst, pattern, sort, branch, url) ==
    {MkConfig(r) : r \in
        [type : ty, id : id, stable_only : stable, repo : repo,
         instance : inst, pattern : pattern, sort_version : sort,
         branch : branch, url : url]}

\* the Configs of the model: for each strategy every key it reads absent or
\* with a value of each kind the code tells apart, and Configs without type
\* or with a type that names no strategy (one differs from github by case)
Configs ==
    LET no == {Absent}
        ids == {Absent, S(<<"1","2">>), S(<<"1","x">>), NoBytes}
        flags == {Absent, StrTrue, S(<<"f","a","l","s","e">>)}
        sorts == {Absent, StrTrue, S(<<"T","r","u","e">>)}
        repos == {Absent, S(<<"o","/","r">>), S(<<"n","o","r","e","p","o">>)}
        repo == {Absent, S(<<"o","/","r">>)}
        insts == {Absent, S(<<"g","l",".","e","x","a","m","p","l","e">>)}
        urls == {Absent, S(<<"u",".","e","x","a","m","p","l","e","/","r">>)}
        branches == {Absent, Names.master}
        patterns == {Absent, PatPlain, PatCapture, PatInvalid}
        scans == {Absent, PatScan, PatScanPlain, PatInvalid}
    IN  Shape({TyAnitya}, ids, flags, no, no, no, no, no, no)
        \cup Shape({TyGitHub}, no, no, repos, no, patterns, sorts, branches, no)
        \cup Shape({TyGitLab}, no, no, repo, insts, patterns, sorts, no, no)
        \cup Shape({TyGitWeb}, no, no, no, no, patterns, no, no, urls)
        \cup Shape({TyGit}, no, no, no, no, {Absent, PatPlain, PatInvalid},
                   no, branches, urls)
        \cup Shape({TyHTML}, no, no, no, no, scans, no, no, urls)
        \cup Shape({Absent, S(<<"G","i","t","H","u","b">>), NoBytes}, {Absent, S(<<"1","2">>)}, no,
                   repo, no, {Absent, PatScan}, no, no, urls)

----------------------------------------------------------------------------
(* The responses of the upstream servers *)

MaxTags == 3

MaxRefs == 3

\* the tag and version names an upstream lists
TagNames == {Names.v9, Names.v10, Names.vv9, Names.date, NoBytes}

\* the advertisements a Git server answers with
CheckAdvertisements ==
    {[lines |-> ls, trailer |-> FlushPkt] :
        ls \in SeqsUpTo({"master", "master_next", "tag9", "tag10", "tagdate",
                         "tag_empty", "bad"}, MaxRefs)}

\* StatusCode values: OK, Not Modified, Not Found
Statuses == {200, 304, 404}

\* StatusCode::is_client_error() || is_server_error(), the condition of
\* Response::error_for_status_ref
error_for_status(status) == status \in 400..599

\* 10 * 1024 * 1024
BodyLimit == 10485760

\* Response::content_length(): None (-1), or the declared length
ContentLengths == {-1, 1024, BodyLimit, BodyLimit + 1}

\* a body that does not deserialize as the type the checker expects
Undecodable == [decoded |-> FALSE]

\* AnityaData
AnityaBodies ==
    {Undecodable} \cup
        [decoded : {TRUE}, id : {12, 13},
         stable_versions : SeqsUpTo({Names.v9, NoBytes}, MaxTags - 1),
         versions : SeqsUpTo({Names.v9, NoBytes}, MaxTags - 1)]

\* GitHubResponse, Vec<GitLabData>: the names of the tags; for GitWeb the
\* text of the elements of class name; for HTML the page (HtmlText)
NameBodies == [decoded : {TRUE}, names : SeqsUpTo(TagNames, MaxTags)]

\* Vec<GithubCommitRest>
CommitBodies ==
    {Undecodable} \cup
        [decoded : {TRUE}, shas : {<<>>, <<OidA>>, <<OidB, OidA>>}]

GitBodies == [decoded : {TRUE}, adv : CheckAdvertisements]

\* the page an HTML upstream serves for a list of names: v<name>; each
HtmlText(names) ==
    Flatten([k \in DOMAIN names |-> <<118>> \o names[k] \o <<59>>])

NoResponse ==
    [failed |-> FALSE, status |-> 0, content_length |-> -1,
     body |-> Undecodable]

\* send() failed: no response
TransportFailure == [NoResponse EXCEPT !.failed = TRUE]

\* what send() may give the checker c
Responses(c) ==
    LET bodies ==
            CASE c.ty = "anitya" -> AnityaBodies
              [] c.ty = "github" /\ c.branch # Absent -> CommitBodies
              [] c.ty = "github" /\ c.branch = Absent ->
                    {Undecodable} \cup NameBodies
              [] c.ty = "gitlab" -> {Undecodable} \cup NameBodies
              [] c.ty = "gitweb" -> NameBodies
              [] c.ty = "git" -> GitBodies
              [] c.ty = "html" -> NameBodies
        lengths == IF c.ty \in {"gitweb", "html"} THEN ContentLengths
                   ELSE {-1}
    IN  {TransportFailure} \cup
            [failed : {FALSE}, status : Statuses, content_length : lengths,
             body : bodies]

----------------------------------------------------------------------------
(* UpdateChecker::check of the six checkers, from the response on: the     *)
(* results the call may return                                              *)

\* payload.first() after sort_unstable_by(|b, a| version_compare(a, b))
highest_first(list) ==
    {Ok(l[1]) : l \in sort_unstable_by(list, "descending")}

\* versions.last() after sort_unstable_by(|a, b| version_compare(a, b))
highest_last(list) ==
    {Ok(l[Len(l)]) : l \in sort_unstable_by(list, "ascending")}

\* AnityaChecker::check without the comparison of the ids
AnityaChecker_check_any_id(c, r) ==
    IF r.failed THEN {Err("send")}
    ELSE IF error_for_status(r.status) THEN {Err("HTTP status")}
    ELSE IF ~r.body.decoded THEN {Err("decode")}
    ELSE LET versions == IF c.stable_only THEN r.body.stable_versions
                         ELSE r.body.versions
         IN  IF Len(versions) < 1
             THEN {Err("Anitya didn't return any stable versions!")}
             ELSE {Ok(versions[1])}

\* AnityaChecker::check
AnityaChecker_check(c, r) ==
    IF r.failed THEN {Err("send")}
    ELSE IF error_for_status(r.status) THEN {Err("HTTP status")}
    ELSE IF ~r.body.decoded THEN {Err("decode")}
    ELSE IF r.body.id # c.id
    THEN {Err("requested ID and received ID mismatch.")}
    ELSE LET versions == IF c.stable_only THEN r.body.stable_versions
                         ELSE r.body.versions
         IN  IF Len(versions) < 1
             THEN {Err("Anitya didn't return any stable versions!")}
             ELSE {Ok(versions[1])}

\* GitHubChecker::check_tags
GitHubChecker_check_tags(c, r) ==
    LET selected(payload) ==
            IF payload = <<>> THEN {Err("GitHub didn't return any tags!")}
            ELSE IF c.sort_version THEN highest_first(payload)
            ELSE {Ok(payload[1])}
        extracted(ex) == IF ~ex.ok THEN {Err("regex")} ELSE selected(ex.out)
    IN  IF r.failed THEN {Err("send")}
        ELSE IF error_for_status(r.status) THEN {Err("HTTP status")}
        ELSE IF ~r.body.decoded THEN {Err("decode")}
        ELSE IF c.pattern # Absent
        THEN extracted(extract_versions(c.pattern, r.body.names))
        ELSE selected(r.body.names)

\* GitHubChecker::check_rev
GitHubChecker_check_rev(c, r) ==
    IF r.failed THEN {Err("send")}
    ELSE IF error_for_status(r.status) THEN {Err("HTTP status")}
    ELSE IF ~r.body.decoded THEN {Err("decode")}
    ELSE IF r.body.shas = <<>> THEN {Err("Repo commits is empty")}
    ELSE {Ok(r.body.shas[1])}

\* GitLabChecker::check
GitLabChecker_check(c, r) ==
    LET selected(payload) ==
            IF Len(payload) < 1 THEN {Err("GitLab didn't return any tags!")}
            ELSE IF c.sort_version THEN highest_first(payload)
            ELSE {Ok(payload[1])}
        filtered(regex) ==
            LET Matches(x) == is_match(regex.re, x)
            IN  IF ~regex.ok THEN {Err("regex")}
                ELSE selected(SelectSeq(r.body.names, Matches))
    IN  IF r.failed THEN {Err("send")}
        ELSE IF ~r.body.decoded THEN {Err("decode")}
        ELSE IF c.pattern # Absent THEN filtered(Regex_new(c.pattern))
        ELSE selected(r.body.names)

\* GitWebChecker::check without the look at the declared length
GitWebChecker_check_any_length(c, r) ==
    LET selected(versions) ==
            IF Len(versions) < 1 THEN {Err("No tags found.")}
            ELSE IF Len(versions) = 1 THEN {Ok(versions[1])}
            ELSE highest_last(versions)
        extracted(ex) == IF ~ex.ok THEN {Err("regex")} ELSE selected(ex.out)
    IN  IF r.failed THEN {Err("send")}
        ELSE IF c.pattern # Absent
        THEN extracted(extract_versions(c.pattern, r.body.names))
        ELSE selected(r.body.names)

\* GitWebChecker::check
GitWebChecker_check(c, r) ==
    LET selected(versions) ==
            IF Len(versions) < 1 THEN {Err("No tags found.")}
            ELSE IF Len(versions) = 1 THEN {Ok(versions[1])}
            ELSE highest_last(versions)
        extracted(ex) == IF ~ex.ok THEN {Err("regex")} ELSE selected(ex.out)
    IN  IF r.failed THEN {Err("send")}
        ELSE IF r.content_length > BodyLimit
        THEN {Err("HTML body too large")}
        ELSE IF c.pattern # Absent
        THEN extracted(extract_versions(c.pattern, r.body.names))
        ELSE selected(r.body.names)

\* the string a GitRefs is displayed as
to_string(x) == x.name

\* the branch arm taking the first Heads whose name begins with the branch
GitChecker_check_branch_prefix(c, collected) ==
    LET IsBranch(x) == x.kind = "Heads" /\ starts_with(x.name, c.branch)
        head == SelectSeq(collected, IsBranch)
    IN  IF head # <<>> THEN {Ok(head[1].rev)}
        ELSE {Err("branch didn't return any rev!")}

\* GitChecker::check, the branch arm: the revision of the first Heads whose
\* name is the configured branch
GitChecker_check_branch(c, collected) ==
    LET IsBranch(x) == x.kind = "Heads" /\ x.name = c.branch
        head == SelectSeq(collected, IsBranch)
    IN  IF head # <<>> THEN {Ok(head[1].rev)}
        ELSE {Err("branch didn't return any rev!")}

\* GitChecker::check, the tag arm from the optional pattern on
GitChecker_check_names(c, names) ==
    LET selected(head) ==
            IF head = <<>> THEN {Err("didn't return any tags!")}
            ELSE highest_first(head)
        extracted(ex) == IF ~ex.ok THEN {Err("regex")} ELSE selected(ex.out)
    IN  IF c.pattern # Absent
        THEN extracted(extract_versions(c.pattern, names))
        ELSE selected(names)

\* GitChecker::check, the tag arm: the Tags, as strings
GitChecker_check_tags(c, collected) ==
    LET IsTag(x) == x.kind = "Tag"
        head == SelectSeq(collected, IsTag)
    IN  GitChecker_check_names(c, [k \in DOMAIN head |-> to_string(head[k])])

\* GitChecker::check, once the advertisement is decoded
GitChecker_check_refs(c, collected) ==
    IF ~collected.ok THEN {Err("parse")}
    ELSE IF c.branch # Absent THEN GitChecker_check_branch(c, collected.refs)
    ELSE GitChecker_check_tags(c, collected.refs)

\* GitChecker::check
GitChecker_check(c, r) ==
    IF r.failed THEN {Err("send")}
    ELSE IF error_for_status(r.status) THEN {Err("HTTP status")}
    ELSE GitChecker_check_refs(c, collect_git_refs(Bytes(r.body.adv)))

\* HTMLChecker::check
HTMLChecker_check(c, r) ==
    LET selected(versions) ==
            IF Len(versions) < 1
            THEN {Err("No version matches the pattern.")}
            ELSE IF Len(versions) = 1 THEN {Ok(versions[1])}
            ELSE highest_last(versions)
        captured(matches) ==
            IF \E k \in DOMAIN matches : ~matches[k].has1
            THEN {Err("Pattern did not capture anything.")}
            ELSE selected([k \in DOMAIN matches |-> matches[k].g1])
        scanned(pattern, body) ==
            IF ~pattern.ok THEN {Err("regex")}
            ELSE captured(captures_iter(pattern.re, body))
    IN  IF r.failed THEN {Err("send")}
        ELSE IF r.content_length > BodyLimit
        THEN {Err("HTML body too large")}
        ELSE IF error_for_status(r.status) THEN {Err("HTTP status")}
        ELSE scanned(Regex_new(c.pattern), HtmlText(r.body.names))

\* UpdateChecker::check of the constructed strategy, from the response on
check(c, r) ==
    CASE c.ty = "anitya" -> AnityaChecker_check(c, r)
      [] c.ty = "github" /\ c.branch # Absent -> GitHubChecker_check_rev(c, r)
      [] c.ty = "github" /\ c.branch = Absent -> GitHubChecker_check_tags(c, r)
      [] c.ty = "gitlab" -> GitLabChecker_check(c, r)
      [] c.ty = "gitweb" -> GitWebChecker_check(c, r)
      [] c.ty = "git" -> GitChecker_check(c, r)
      [] c.ty = "html" -> HTMLChecker_check(c, r)

----------------------------------------------------------------------------
(* check_update on one Config *)

Init ==
    /\ config \in Configs
    /\ pc = "start"
    /\ checker = NoChecker
    /\ built = 0
    /\ invoked = 0
    /\ github_token = "unread"
    /\ requests = <<>>
    /\ resp = NoResponse
    /\ result = Running
    /\ input = [lines |-> <<>>, trailer |-> NoBytes]
    /\ pktpc = "idle"
    /\ manifest = NoResult
    /\ refs = NoRefs
    /\ call = NoCall
    /\ outcome = NoReturn
    /\ NoBatch

\* check_update: the strategy is selected and constructed and, unless that
\* failed, its check is called
CheckUpdate ==
    /\ pc = "start"
    /\ LET sel == select_checker(config)
       IN  IF sel.ok
           THEN /\ checker' = sel.checker
                /\ built' = built + 1
                /\ invoked' = invoked + 1
                /\ pc' = "check"
                /\ result' = result
           ELSE /\ result' = Err(sel.err)
                /\ pc' = "done"
                /\ UNCHANGED <<checker, built, invoked>>
    /\ UNCHANGED <<config, github_token, requests, resp>>
    /\ UNCHANGED pktvars
    /\ UNCHANGED funvars
    /\ UNCHANGED batchvars

\* String::splitn(2, '/') gives a second item
has_repo_name(repo) == \E k \in DOMAIN repo : repo[k] = 47

\* the request of the Anitya, GitLab, GitWeb, Git and HTML checkers, which
\* is the first statement of their check, and the response to it
Send ==
    /\ pc = "check"
    /\ checker.ty # "github"
    /\ requests' = Append(requests, [to |-> checker.ty, authorization |-> FALSE])
    /\ resp' \in Responses(checker)
    /\ pc' = "response"
    /\ UNCHANGED <<config, checker, built, invoked, github_token, result>>
    /\ UNCHANGED pktvars
    /\ UNCHANGED funvars
    /\ UNCHANGED batchvars

\* GitHubSend sending the request without the header when GITHUB_TOKEN is
\* not set
GitHubSend_without_token ==
    /\ pc = "check"
    /\ checker.ty = "github"
    /\ \E token \in {"set", "unset"} :
            /\ github_token' = token
            /\ IF ~has_repo_name(checker.repo)
               THEN /\ result' = Err("Repository name missing")
                    /\ pc' = "done"
                    /\ UNCHANGED <<requests, resp>>
               ELSE /\ requests' =
                        Append(requests,
                               [to |-> "github",
                                authorization |-> token = "set"])
                    /\ resp' \in Responses(checker)
                    /\ pc' = "response"
                    /\ result' = result
    /\ UNCHANGED <<config, checker, built, invoked>>
    /\ UNCHANGED pktvars
    /\ UNCHANGED funvars
    /\ UNCHANGED batchvars

\* GitHubChecker::check_tags and check_rev up to send(): the repository slug
\* is split, GITHUB_TOKEN is read, and the request carries the token.  The
\* environment holds GITHUB_TOKEN or not whether or not the check gets to
\* read it; the model decides which when the GitHub check begins.
GitHubSend ==
    /\ pc = "check"
    /\ checker.ty = "github"
    /\ \E token \in {"set", "unset"} :
            /\ github_token' = token
            /\ IF ~has_repo_name(checker.repo)
               THEN /\ result' = Err("Repository name missing")
                    /\ pc' = "done"
                    /\ UNCHANGED <<requests, resp>>
               ELSE IF token = "unset"
               THEN /\ result' = Err("GitHub checker requires authentication!")
                    /\ pc' = "done"
                    /\ UNCHANGED <<requests, resp>>
               ELSE /\ requests' =
                        Append(requests,
                               [to |-> "github", authorization |-> TRUE])
                    /\ resp' \in Responses(checker)
                    /\ pc' = "response"
                    /\ result' = result
    /\ UNCHANGED <<config, checker, built, invoked>>
    /\ UNCHANGED pktvars
    /\ UNCHANGED funvars
    /\ UNCHANGED batchvars

\* the rest of the check, and check_update returns what it returns
Receive ==
    /\ pc = "response"
    /\ result' \in check(checker, resp)
    /\ pc' = "done"
    /\ UNCHANGED <<config, checker, built, invoked, github_token, requests,
                   resp>>
    /\ UNCHANGED pktvars
    /\ UNCHANGED funvars
    /\ UNCHANGED batchvars

Next == CheckUpdate \/ Send \/ GitHubSend \/ Receive

Spec == Init /\ [][Next]_vars

----------------------------------------------------------------------------
(* The decoder run on one advertisement *)

InitPkt ==
    /\ input \in Advertisements
    /\ pktpc = "input"
    /\ manifest = NoResult
    /\ refs = NoRefs
    /\ call = NoCall
    /\ outcome = NoReturn
    /\ NoBatch
    /\ config = <<>>
    /\ pc = "idle"
    /\ checker = NoChecker
    /\ built = 0
    /\ invoked = 0
    /\ github_token = "unread"
    /\ requests = <<>>
    /\ resp = NoResponse
    /\ result = Running

\* collect_git_refs, its first statement: parse_git_manifest(input)
ParseManifest ==
    /\ pktpc = "input"
    /\ manifest' = parse_git_manifest(Bytes(input))
    /\ pktpc' = "parsed"
    /\ UNCHANGED <<input, refs>>
    /\ UNCHANGED chkvars
    /\ UNCHANGED funvars
    /\ UNCHANGED batchvars

\* collect_git_refs, the rest: the parse error is returned, or the decoded
\* pairs are classified
CollectRefs ==
    /\ pktpc = "parsed"
    /\ refs' = collect_git_refs(Bytes(input))
    /\ pktpc' = "collected"
    /\ UNCHANGED <<input, manifest>>
    /\ UNCHANGED chkvars
    /\ UNCHANGED funvars
    /\ UNCHANGED batchvars

NextPkt == ParseManifest \/ CollectRefs

SpecPkt == InitPkt /\ [][NextPkt]_vars

----------------------------------------------------------------------------
(* filter.rs: version strings rewritten to the packaging style.            *)
(* A regular expression of filter.rs is a tree: a class of bytes, a        *)
(* sequence, an alternation, or an item repeated min times or more.        *)

Class(set) == [op |-> "class", set |-> set]

Cat(items) == [op |-> "cat", items |-> items]

Alt(items) == [op |-> "alt", items |-> items]

Repeat(item, min) == [op |-> "repeat", item |-> item, min |-> min]

Lit(chars) == Cat([k \in DOMAIN chars |-> Class({Ascii[chars[k]]})])

RECURSIVE Ends(_, _, _)
RECURSIVE EndsCat(_, _, _, _)
RECURSIVE EndsRepeat(_, _, _, _)

\* the positions where a match of re that starts at one of starts can end
Ends(re, s, starts) ==
    IF starts = {} THEN {}
    ELSE IF re.op = "class"
         THEN {p + 1 : p \in {q \in starts : q <= Len(s) /\ s[q] \in re.set}}
    ELSE IF re.op = "cat" THEN EndsCat(re.items, 1, s, starts)
    ELSE IF re.op = "alt"
         THEN UNION {Ends(re.items[k], s, starts) : k \in DOMAIN re.items}
    ELSE IF re.min = 0 THEN EndsRepeat(re.item, s, starts, {})
    ELSE EndsRepeat(re.item, s, Ends(re.item, s, starts), {})

EndsCat(items, k, s, starts) ==
    IF k > Len(items) THEN starts
    ELSE EndsCat(items, k + 1, s, Ends(items[k], s, starts))

EndsRepeat(item, s, frontier, seen) ==
    IF frontier \subseteq seen THEN seen
    ELSE EndsRepeat(item, s, Ends(item, s, frontier \ seen), seen \cup frontier)

\* Regex::is_match of a pattern written between ^ and $
matches_whole(re, s) == (Len(s) + 1) \in Ends(re, s, {1})

\* \d+
Digits == Repeat(Class(DigitBytes), 1)

\* (?:\.\d+)+
Dotted == Repeat(Cat(<<Class({Ascii["."]}), Digits>>), 1)

\* ^\d+(?:\.\d+)+[-_~+^][a-z]\d+$
REGEX_LETTER_NOTATION ==
    Cat(<<Digits, Dotted, Class({Ascii[c] : c \in {"-", "_", "~", "+", "^"}}),
          Class(97..122), Digits>>)

\* ^\d+(?:-\d+)+$
REGEX_DASHES == Cat(<<Digits, Repeat(Cat(<<Class({Ascii["-"]}), Digits>>), 1)>>)

\* ^\d+(?:_[0-9a-zA-Z]+)+$
REGEX_UNDERSCORES ==
    Cat(<<Digits,
          Repeat(Cat(<<Class({Ascii["_"]}), Repeat(Class(AlnumBytes), 1)>>), 1)>>)

\* ^\d+(?:\.\d+)+[-_~^]*(?:rc|a|alpha|b|beta)\d*$
REGEX_RELEASE_TYPES ==
    Cat(<<Digits, Dotted,
          Repeat(Class({Ascii[c] : c \in {"-", "_", "~", "^"}}), 0),
          Alt(<<Lit(<<"r", "c">>), Lit(<<"a">>),
                Lit(<<"a", "l", "p", "h", "a">>), Lit(<<"b">>),
                Lit(<<"b", "e", "t", "a">>)>>),
          Repeat(Class(DigitBytes), 0)>>)

\* ^\d+(?:\.\d+)+(?:-\d+)+$
REGEX_REVISION ==
    Cat(<<Digits, Dotted, Repeat(Cat(<<Class({Ascii["-"]}), Digits>>), 1)>>)

\* version_type: the first pattern that matches decides
version_type(version) ==
    IF matches_whole(REGEX_RELEASE_TYPES, version) THEN "ReleaseTypes"
    ELSE IF matches_whole(REGEX_DASHES, version) THEN "Dashes"
    ELSE IF matches_whole(REGEX_UNDERSCORES, version) THEN "Underscores"
    ELSE IF matches_whole(REGEX_LETTER_NOTATION, version) THEN "LetterNotation"
    ELSE IF matches_whole(REGEX_REVISION, version) THEN "Revision"
    ELSE "Normal"

\* Regex::replace_all of a pattern that is one class of bytes
replace_all_class(s, set, with) ==
    Flatten([k \in DOMAIN s |-> IF s[k] \in set THEN with ELSE <<s[k]>>])

\* \s on the ASCII bytes
WhiteSpaceBytes == {9, 10, 11, 12, 13, 32}

\* [-+~^]*((?:rc|alpha|a|beta|b)\S+)
RELEASE_REPLACER ==
    Cat(<<Repeat(Class({Ascii[c] : c \in {"-", "+", "~", "^"}}), 0),
          Alt(<<Lit(<<"r", "c">>), Lit(<<"a", "l", "p", "h", "a">>),
                Lit(<<"a">>), Lit(<<"b", "e", "t", "a">>), Lit(<<"b">>)>>),
          Repeat(Class((0..255) \ WhiteSpaceBytes), 1)>>)

RECURSIVE replace_all_release(_, _)
\* Regex::replace_all(RELEASE_REPLACER, "~$1") on s from position from on:
\* the leftmost match, its separators dropped, its group kept after a tilde
replace_all_release(s, from) ==
    LET found == {p \in from..Len(s) : Ends(RELEASE_REPLACER, s, {p}) # {}}
        rewrite(p, end) ==
            SubSeq(s, from, p - 1) \o <<Ascii["~"]>>
            \o SubSeq(s, p + PrefixLen(Drop(s, p - 1),
                                       {Ascii[c] : c \in {"-", "+", "~", "^"}}),
                      end - 1)
            \o replace_all_release(s, end)
        at(p) == rewrite(p, Max(Ends(RELEASE_REPLACER, s, {p})))
    IN  IF found = {} THEN SubSeq(s, from, Len(s)) ELSE at(Min(found))

\* compily_with_aosc: lower case, then the rewriting of the version's type
compily_with_aosc(version) ==
    LET rewrite(v, type) ==
            IF type = "Normal" THEN v
            ELSE IF type = "LetterNotation"
                 THEN replace_all_class(v, {Ascii[c] : c \in {"-", "_", "~", "+", "^"}}, <<>>)
            ELSE IF type \in {"Dashes", "Underscores"}
                 THEN replace_all_class(v, {Ascii[c] : c \in {"-", "_"}}, <<Ascii["."]>>)
            ELSE IF type = "ReleaseTypes" THEN replace_all_release(v, 1)
            ELSE replace_all_class(v, {Ascii[c] : c \in {"-", "_", "~", "+", "^"}}, <<Ascii["+"]>>)
        typed(v) == rewrite(v, version_type(v))
    IN  typed(to_lowercase(version))

----------------------------------------------------------------------------
(* parser.rs: the CHKUPDATE line of a package turned into a Config.        *)

\* const CONFIG_SEPARATOR
CONFIG_SEPARATOR == S(<<":", ":">>)

\* winnow take_until0(pattern): the input before the first pattern
take_until0(pattern, i) ==
    LET hits == {k \in 1..Len(i) : starts_with(Drop(i, k - 1), pattern)}
        upto(k) == POk(Take(i, k - 1), Drop(i, k - 1))
    IN  IF hits = {} THEN PErr(i) ELSE upto(Min(hits))

\* winnow tag(pattern)
tag(pattern, i) ==
    IF starts_with(i, pattern) THEN POk(pattern, Drop(i, Len(pattern))) ELSE PErr(i)

take_type(i) == take_until0(CONFIG_SEPARATOR, i)

\* repeat(1.., alt((alphanumeric1, tag("_")))).recognize()
kv_key(i) ==
    LET n == PrefixLen(i, AlnumBytes \cup {Ascii["_"]})
    IN  IF n >= 1 THEN POk(Take(i, n), Drop(i, n)) ELSE PErr(i)

\* kv_pair of parser.rs: separated_pair(kv_key, tag("="), take_until0(";"))
parser_kv_pair(i) ==
    LET value(key, eq) ==
            IF ~eq.ok THEN PErr(i)
            ELSE LET pair(val) ==
                         IF val.ok THEN POk(<<key.out, val.out>>, val.rest) ELSE PErr(i)
                 IN  pair(take_until0(S(<<";">>), eq.rest))
        keyed(key) == IF key.ok THEN value(key, tag(S(<<"=">>), key.rest)) ELSE PErr(i)
    IN  keyed(kv_key(i))

\* terminated(kv_pair, tag(";"))
kv_pair_terminated(i) ==
    LET ended(pair, semi) == IF semi.ok THEN POk(pair.out, semi.rest) ELSE PErr(i)
        paired(pair) == IF pair.ok THEN ended(pair, tag(S(<<";">>), pair.rest)) ELSE PErr(i)
    IN  paired(parser_kv_pair(i))

RECURSIVE repeat_kv_pairs(_, _)
\* repeat: pairs while one parses; the input is put back where the last began
repeat_kv_pairs(acc, i) ==
    LET more(pair) ==
            IF pair.ok THEN repeat_kv_pairs(Append(acc, pair.out), pair.rest)
            ELSE POk(acc, i)
    IN  more(kv_pair_terminated(i))

\* repeat(1.., terminated(kv_pair, tag(";")))
kv_pairs(i) ==
    LET atleast(all) == IF all.out = <<>> THEN PErr(i) ELSE all
    IN  atleast(repeat_kv_pairs(<<>>, i))

\* separated_pair(take_type, tag(CONFIG_SEPARATOR), kv_pairs)
config_line(i) ==
    LET pairs(ty, sep) ==
            IF ~sep.ok THEN PErr(i)
            ELSE LET both(kvs) == IF kvs.ok THEN POk(<<ty.out, kvs.out>>, kvs.rest) ELSE PErr(i)
                 IN  both(kv_pairs(sep.rest))
        typed(ty) == IF ty.ok THEN pairs(ty, tag(CONFIG_SEPARATOR, ty.rest)) ELSE PErr(i)
    IN  typed(take_type(i))

\* HashMap::insert
insert(context, k, v) ==
    [x \in DOMAIN context \cup {k} |-> IF x = k THEN v ELSE context[x]]

RECURSIVE insert_all(_, _)
\* for (k, v) in config { context.insert(k, v) }
insert_all(context, pairs) ==
    IF pairs = <<>> THEN context
    ELSE insert_all(insert(context, pairs[1][1], pairs[1][2]), Tail(pairs))

\* parse_check_update(content): [ok, context]; "type" is keyed to content
\* as config_line left it, which is the rest of the input
parse_check_update(content) ==
    LET made(parsed) ==
            IF ~parsed.ok THEN [ok |-> FALSE, context |-> <<>>]
            ELSE [ok |-> TRUE,
                  context |-> insert_all(insert(<<>>, S(<<"t", "y", "p", "e">>), parsed.rest),
                                         parsed.out[2])]
    IN  made(config_line(content))

----------------------------------------------------------------------------
(* version_compare and extract_versions called by themselves *)

\* the upstream versions compily_with_aosc is called on: a dotted or plain
\* number, then separators, then a suffix
FilterBases == {S(<<"1", ".", "2">>), S(<<"1", ".", "2", ".", "3">>), S(<<"2", "0", "2", "3">>)}

FilterSeps == {S(<<>>), S(<<"-">>), S(<<"_">>), S(<<"~">>), S(<<"+">>), S(<<"^">>), S(<<"-", "-">>), S(<<"_", "-">>)}

FilterSuffixes ==
    {S(<<>>), S(<<"r", "c", "1">>), S(<<"r", "c">>), S(<<"R", "C", "1">>),
     S(<<"a", "1">>), S(<<"a", "l", "p", "h", "a", "5">>), S(<<"b">>),
     S(<<"b", "e", "t", "a">>), S(<<"p", "6">>), S(<<"5", "6">>),
     S(<<"0", "7", "-", "1", "8">>), S(<<"0", "a">>)}

\* the CHKUPDATE values parse_check_update is called on: a type, "::", and
\* up to MaxPairs key=value pairs joined by ";"
MaxPairs == 2

ConfigTypes == {S(<<"g", "i", "t">>), S(<<"a", ":", "b">>), S(<<>>)}

ConfigPairs ==
    {<<S(<<"i", "d">>), S(<<"1", "2">>)>>,
     <<S(<<"u", "r", "l">>), S(<<"a", "=", "b">>)>>,
     <<S(<<"r", "e", "p", "o">>), S(<<"a", ":", ":", "b">>)>>,
     <<S(<<"a", "_", "b", "1">>), S(<<>>)>>,
     <<S(<<"a", "-", "b">>), S(<<"1">>)>>}

RECURSIVE JoinPairs(_)
JoinPairs(pairs) ==
    IF pairs = <<>> THEN <<>>
    ELSE pairs[1][1] \o S(<<"=">>) \o pairs[1][2]
         \o (IF Len(pairs) = 1 THEN <<>> ELSE S(<<";">>) \o JoinPairs(Tail(pairs)))

\* the CHKUPDATE value of a call
ConfigLine(c) == c.type \o CONFIG_SEPARATOR \o JoinPairs(c.pairs)

\* the strings version_compare is called on
VersionStrings ==
    {NoBytes, Names.v9, Names.v10, Names.v100, Names.v19, Names.v110,
     Names.v19a, Names.v19B, Names.vv9, Names.beta, Names.date}

MaxCollection == 3

\* the strings of the collections extract_versions is called on
CollectionStrings == {Names.v9, Names.vv10, Names.v, Names.beta}

Calls ==
    [fn : {"version_compare"},
     a : VersionStrings, b : VersionStrings, c : VersionStrings]
    \cup
    [fn : {"extract_versions"},
     pattern : {PatPlain, PatCapture, PatOptional, PatInvalid},
     collection : SeqsUpTo(CollectionStrings, MaxCollection)]
    \cup
    [fn : {"compily_with_aosc"},
     base : FilterBases, sep : FilterSeps, suffix : FilterSuffixes]
    \cup
    [fn : {"parse_check_update"},
     type : ConfigTypes, pairs : SeqsUpTo(ConfigPairs, MaxPairs)]

InitFun ==
    /\ call \in Calls
    /\ outcome = NoReturn
    /\ NoBatch
    /\ input = [lines |-> <<>>, trailer |-> NoBytes]
    /\ pktpc = "idle"
    /\ manifest = NoResult
    /\ refs = NoRefs
    /\ config = <<>>
    /\ pc = "idle"
    /\ checker = NoChecker
    /\ built = 0
    /\ invoked = 0
    /\ github_token = "unread"
    /\ requests = <<>>
    /\ resp = NoResponse
    /\ result = Running

\* version_compare, called on each pair of the three strings
VersionCompare ==
    /\ call.fn = "version_compare"
    /\ ~outcome.returned
    /\ outcome' = [returned |-> TRUE,
                   aa |-> version_compare(call.a, call.a),
                   ab |-> version_compare(call.a, call.b),
                   ba |-> version_compare(call.b, call.a),
                   bc |-> version_compare(call.b, call.c),
                   ac |-> version_compare(call.a, call.c)]
    /\ UNCHANGED call
    /\ UNCHANGED pktvars
    /\ UNCHANGED chkvars
    /\ UNCHANGED batchvars

\* extract_versions(pattern, collection)
ExtractVersions ==
    /\ call.fn = "extract_versions"
    /\ ~outcome.returned
    /\ outcome' = [returned |-> TRUE,
                   versions |-> extract_versions(call.pattern, call.collection)]
    /\ UNCHANGED call
    /\ UNCHANGED pktvars
    /\ UNCHANGED chkvars
    /\ UNCHANGED batchvars

\* compily_with_aosc, called on one upstream version
ComplyWithAosc ==
    /\ call.fn = "compily_with_aosc"
    /\ ~outcome.returned
    /\ outcome' = [returned |-> TRUE,
                   version |-> compily_with_aosc(call.base \o call.sep \o call.suffix)]
    /\ UNCHANGED call
    /\ UNCHANGED pktvars
    /\ UNCHANGED chkvars
    /\ UNCHANGED batchvars

\* check_update_worker's two lines: config_line.to_owned() + ";", then
\* parse_check_update
ParseCheckUpdate ==
    /\ call.fn = "parse_check_update"
    /\ ~outcome.returned
    /\ outcome' = [returned |-> TRUE,
                   config |-> parse_check_update(ConfigLine(call) \o S(<<";">>))]
    /\ UNCHANGED call
    /\ UNCHANGED pktvars
    /\ UNCHANGED chkvars
    /\ UNCHANGED batchvars

NextFun == VersionCompare \/ ExtractVersions \/ ComplyWithAosc \/ ParseCheckUpdate

SpecFun == InitFun /\ [][NextFun]_vars

----------------------------------------------------------------------------
(* main: the batch of spec files, mapped by the rayon threads *)

MaxFiles == 3

MaxThreads == 2

\* what a spec file and its upstream are like: the spec has no CHKUPDATE
\* line, check_update fails, the upstream has a newer version
PackageKinds == {"no_chkupdate", "check_fails", "newer"}

\* the lists of spec files: distinct packages; the names only tell the
\* packages apart, so the lists are taken in the order of the names
FileLists ==
    {l \in SeqsUpTo([name : 1..(MaxFiles + 1), kind : PackageKinds], MaxFiles) :
        \A i, j \in DOMAIN l : i < j => l[i].name < l[j].name}

Idle == 0

\* the closure has not returned for the item
Pending == [pending |-> TRUE]

\* check_update_worker(client, spec, dry_run, comply), with the name that
\* map_err puts in front of an error
check_update_worker(f, ver) ==
    IF f.kind = "no_chkupdate"
    THEN [ok |-> FALSE, name |-> f.name,
          err |-> "'CHKUPDATE' field is missing, cannot continue!"]
    ELSE IF f.kind = "check_fails"
    THEN [ok |-> FALSE, name |-> f.name, err |-> "check_update"]
    ELSE [ok |-> TRUE, name |-> f.name, before |-> ver, after |-> ver + 1]

InitBatch ==
    /\ files \in FileLists
    /\ dry_run \in BOOLEAN
    /\ tree = [k \in DOMAIN files |-> 1]
    /\ current = 1
    /\ reported = [k \in DOMAIN files |-> 0]
    /\ workers = [t \in 1..MaxThreads |-> Idle]
    /\ completed = [k \in DOMAIN files |-> Pending]
    /\ results = [collected |-> FALSE]
    /\ job = NoJob
    /\ main = NoMain
    /\ call = NoCall
    /\ outcome = NoReturn
    /\ input = [lines |-> <<>>, trailer |-> NoBytes]
    /\ pktpc = "idle"
    /\ manifest = NoResult
    /\ refs = NoRefs
    /\ config = <<>>
    /\ pc = "idle"
    /\ checker = NoChecker
    /\ built = 0
    /\ invoked = 0
    /\ github_token = "unread"
    /\ requests = <<>>
    /\ resp = NoResponse
    /\ result = Running

\* the items no thread has taken yet
Untaken ==
    {i \in DOMAIN files :
        /\ \A t \in DOMAIN workers : workers[t] # i
        /\ completed[i] = Pending}

\* the closure beginning with a load and a later store in place of the
\* fetch_add: a thread may see the counter as it was before the increment
\* of a thread that is still at work
Begin_stale(t) ==
    /\ ~results.collected
    /\ workers[t] = Idle
    /\ \E i \in Untaken :
         /\ workers' = [workers EXCEPT ![t] = i]
         /\ \E seen \in {current} \cup {n \in {current - 1} :
                                            \E u \in DOMAIN workers :
                                                workers[u] # Idle} :
              /\ reported' = [reported EXCEPT ![i] = seen]
              /\ current' = seen + 1
    /\ UNCHANGED <<main, job, files, dry_run, tree, completed, results>>
    /\ UNCHANGED <<pktvars, chkvars, funvars>>

\* a rayon thread takes an item of the parallel iterator and the closure
\* begins: current.fetch_add(1, SeqCst) and the progress line
Begin(t) ==
    /\ ~results.collected
    /\ workers[t] = Idle
    /\ \E i \in Untaken :
         /\ workers' = [workers EXCEPT ![t] = i]
         /\ reported' = [reported EXCEPT ![i] = current]
    /\ current' = current + 1
    /\ UNCHANGED <<main, job, files, dry_run, tree, completed, results>>
    /\ UNCHANGED <<pktvars, chkvars, funvars>>

\* the rest of the closure: check_update_worker, which writes the new
\* version into the spec file unless dry_run, and map_err
Finish(t) ==
    /\ workers[t] # Idle
    /\ LET done(i, ret) ==
            /\ completed' = [completed EXCEPT ![i] = ret]
            /\ tree' = IF ret.ok /\ ret.after # ret.before /\ ~dry_run
                       THEN [tree EXCEPT ![i] = ret.after]
                       ELSE tree
       IN  done(workers[t], check_update_worker(files[workers[t]],
                                                tree[workers[t]]))
    /\ workers' = [workers EXCEPT ![t] = Idle]
    /\ UNCHANGED <<main, job, files, dry_run, current, reported, results>>
    /\ UNCHANGED <<pktvars, chkvars, funvars>>

\* collect() returning at the first error, as a collect into
\* Result<Vec<_>> would
Collect_first_error ==
    /\ ~results.collected
    /\ \/ \A i \in DOMAIN files : completed[i] # Pending
       \/ \E i \in DOMAIN files :
            completed[i] # Pending /\ ~completed[i].ok
    /\ results' =
          [collected |-> TRUE,
           vec |-> IF \A i \in DOMAIN files : completed[i] # Pending
                   THEN completed
                   ELSE LET IsError(c) == c # Pending /\ ~c.ok
                        IN  SelectSeq(completed, IsError)]
    /\ UNCHANGED <<main, job, files, dry_run, tree, current, reported, workers, completed>>
    /\ UNCHANGED <<pktvars, chkvars, funvars>>

\* collect(): once every item is mapped, the results in the order of the
\* items
Collect ==
    /\ ~results.collected
    /\ \A i \in DOMAIN files : completed[i] # Pending
    /\ results' = [collected |-> TRUE, vec |-> completed]
    /\ UNCHANGED <<main, job, files, dry_run, tree, current, reported, workers, completed>>
    /\ UNCHANGED <<pktvars, chkvars, funvars>>

NextBatch == (\E t \in 1..MaxThreads : Begin(t) \/ Finish(t)) \/ Collect

SpecBatch == InitBatch /\ [][NextBatch]_vars

----------------------------------------------------------------------------
(* main.rs: check_update_worker on one package, step by step *)

\* str::trim
trim(s) ==
    LET keep == {k \in DOMAIN s : s[k] \notin WhiteSpaceBytes}
    IN  IF keep = {} THEN <<>> ELSE SubSeq(s, Min(keep), Max(keep))

\* the CHKUPDATE values of the descriptors: none, one whose type is before
\* the "::", two with a type key (the second without the url that git needs),
\* and one without "::"
ChkUpdateLines ==
    {Absent,
     S(<<"g", "i", "t", ":", ":", "u", "r", "l", "=", "u">>),
     S(<<"x", ":", ":", "t", "y", "p", "e", "=", "g", "i", "t", ";", "u", "r", "l", "=", "u">>),
     S(<<"x", ":", ":", "t", "y", "p", "e", "=", "g", "i", "t">>),
     S(<<"n", "o", "p", "e">>)}

\* the descriptors (spec files): whether abbs_meta_apml parses the file, and
\* the variables it defines
SpecFiles ==
    [parses : BOOLEAN,
     UPSTREAM_VER : {Absent, S(<<"1", ".", "2", " ">>)},
     VER : {Absent, S(<<"1", ".", "2">>), S(<<"1", ".", "2", "~", "r", "c", "1">>)},
     REL : BOOLEAN,
     CHKUPDATE : ChkUpdateLines]

\* what the upstream answers a check with
UpstreamVersions ==
    {S(<<"1", ".", "2">>), S(<<" ", "v", "1", ".", "2", "\n">>),
     S(<<"1", ".", "3">>), S(<<"1", ".", "2", "-", "r", "c", "1">>)}

\* the keys of a Config as parse_check_update spells them
KeyBytes ==
    [type |-> S(<<"t", "y", "p", "e">>), id |-> S(<<"i", "d">>),
     stable_only |-> S(<<"s", "t", "a", "b", "l", "e", "_", "o", "n", "l", "y">>),
     repo |-> S(<<"r", "e", "p", "o">>),
     instance |-> S(<<"i", "n", "s", "t", "a", "n", "c", "e">>),
     pattern |-> S(<<"p", "a", "t", "t", "e", "r", "n">>),
     sort_version |-> S(<<"s", "o", "r", "t", "_", "v", "e", "r", "s", "i", "o", "n">>),
     branch |-> S(<<"b", "r", "a", "n", "c", "h">>), url |-> S(<<"u", "r", "l">>)]

\* the Context of parse_check_update as the Config check_update reads
ConfigOf(context) ==
    [k \in {x \in Keys : KeyBytes[x] \in DOMAIN context} |-> context[KeyBytes[k]]]

\* update_version: VER or UPSTREAM_VER replaced, the REL line removed
update_version(new, file, replace_upstream_ver) ==
    [file EXCEPT !.UPSTREAM_VER = IF replace_upstream_ver THEN new ELSE @,
                 !.VER = IF replace_upstream_ver THEN @ ELSE new,
                 !.REL = FALSE]

InitWorker ==
    /\ \E file \in SpecFiles, comply \in BOOLEAN :
          job = [pc |-> "parse_spec", file |-> file, writes |-> 0,
                 comply |-> comply, is_upstream_ver |-> FALSE,
                 current_version |-> Absent, config_line |-> Absent,
                 config |-> <<>>, checked |-> FALSE, new_version |-> Absent,
                 ret |-> "none"]
    /\ dry_run \in BOOLEAN
    /\ main = NoMain
    /\ files = <<>>
    /\ tree = <<>>
    /\ current = 0
    /\ reported = <<>>
    /\ workers = <<>>
    /\ completed = <<>>
    /\ results = [collected |-> FALSE]
    /\ call = NoCall
    /\ outcome = NoReturn
    /\ input = [lines |-> <<>>, trailer |-> NoBytes]
    /\ pktpc = "idle"
    /\ manifest = NoResult
    /\ refs = NoRefs
    /\ config = <<>>
    /\ pc = "idle"
    /\ checker = NoChecker
    /\ built = 0
    /\ invoked = 0
    /\ github_token = "unread"
    /\ requests = <<>>
    /\ resp = NoResponse
    /\ result = Running

\* the worker returns
Returned(j, ret) == [j EXCEPT !.pc = "returned", !.ret = ret]

\* parse_spec, then the recorded version and the CHKUPDATE line, to which
\* one ";" is appended
WorkerParseSpec ==
    /\ job.pc = "parse_spec"
    /\ job' =
          IF ~job.file.parses THEN Returned(job, "Err")
          ELSE IF job.file.UPSTREAM_VER = Absent /\ job.file.VER = Absent
               THEN Returned(job, "Err")
          ELSE IF job.file.CHKUPDATE = Absent THEN Returned(job, "Err")
          ELSE [job EXCEPT
                  !.pc = "parse_check_update",
                  !.comply = IF job.file.UPSTREAM_VER # Absent THEN FALSE ELSE @,
                  !.is_upstream_ver = job.file.UPSTREAM_VER # Absent,
                  !.current_version =
                      IF job.file.UPSTREAM_VER # Absent
                      THEN trim(job.file.UPSTREAM_VER) ELSE trim(job.file.VER),
                  !.config_line = job.file.CHKUPDATE \o S(<<";">>)]
    /\ UNCHANGED <<main, files, dry_run, tree, current, reported, workers, completed, results>>
    /\ UNCHANGED <<pktvars, chkvars, funvars>>

\* parser::parse_check_update
WorkerParseCheckUpdate ==
    /\ job.pc = "parse_check_update"
    /\ LET parsed(r) ==
               IF r.ok THEN [job EXCEPT !.pc = "check_update", !.config = ConfigOf(r.context)]
               ELSE Returned(job, "Err")
       IN  job' = parsed(parse_check_update(job.config_line))
    /\ UNCHANGED <<main, files, dry_run, tree, current, reported, workers, completed, results>>
    /\ UNCHANGED <<pktvars, chkvars, funvars>>

\* the version the worker makes of an answer: trimmed, one leading "v"
\* stripped, and rewritten when compliance is asked for
resolved_version(answer, comply) ==
    LET complied(v) == IF comply THEN compily_with_aosc(v) ELSE v
        stripped(v) == complied(IF starts_with(v, S(<<"v">>)) THEN Drop(v, 1) ELSE v)
    IN  stripped(trim(answer))

\* checker::check_update: no checker for the Config, or the checker's
\* answer, an error or a version
WorkerCheckUpdate ==
    /\ job.pc = "check_update"
    /\ IF ~select_checker(job.config).ok THEN job' = Returned(job, "Err")
       ELSE \/ job' = Returned(job, "Err")
            \/ \E answer \in UpstreamVersions :
                  job' = [job EXCEPT !.pc = "compare", !.checked = TRUE,
                                     !.new_version = resolved_version(answer, job.comply)]
    /\ UNCHANGED <<main, files, dry_run, tree, current, reported, workers, completed, results>>
    /\ UNCHANGED <<pktvars, chkvars, funvars>>

\* the comparison, with the test of dry_run left out
WorkerCompare_without_dry_run ==
    /\ job.pc = "compare"
    /\ job' = IF job.current_version = job.new_version THEN Returned(job, "Ok")
              ELSE [job EXCEPT !.pc = "update_version"]
    /\ UNCHANGED <<main, files, dry_run, tree, current, reported, workers, completed, results>>
    /\ UNCHANGED <<pktvars, chkvars, funvars>>

\* the same version returns at once; a new one goes on to update_version
\* unless dry_run
WorkerCompare ==
    /\ job.pc = "compare"
    /\ job' = IF job.current_version = job.new_version THEN Returned(job, "Ok")
              ELSE IF dry_run THEN Returned(job, "Ok")
              ELSE [job EXCEPT !.pc = "update_version"]
    /\ UNCHANGED <<main, files, dry_run, tree, current, reported, workers, completed, results>>
    /\ UNCHANGED <<pktvars, chkvars, funvars>>

\* update_version: the file cannot be opened, or it is rewritten
WorkerUpdateVersion ==
    /\ job.pc = "update_version"
    /\ \/ job' = Returned(job, "Err")
       \/ job' = [Returned(job, "Ok") EXCEPT
                    !.file = update_version(job.new_version, job.file, job.is_upstream_ver),
                    !.writes = @ + 1]
    /\ UNCHANGED <<main, files, dry_run, tree, current, reported, workers, completed, results>>
    /\ UNCHANGED <<pktvars, chkvars, funvars>>

NextWorker ==
    \/ WorkerParseSpec
    \/ WorkerParseCheckUpdate
    \/ WorkerCheckUpdate
    \/ WorkerCompare
    \/ WorkerUpdateVersion

SpecWorker == InitWorker /\ [][NextWorker]_vars

----------------------------------------------------------------------------
(* main.rs and cli.rs: the command line and main's lookups in it *)

\* build_cli: the arguments declared, each with its id, its spelling and
\* its action (SetTrue for a flag, Set for an option with one value)
build_cli ==
    {[id |-> "DRY_RUN", spelling |-> "--dry-run", action |-> "SetTrue"],
     [id |-> "LOG", spelling |-> "-l", action |-> "Set"],
     [id |-> "FILE", spelling |-> "-f", action |-> "Set"],
     [id |-> "INCLUDE", spelling |-> "-i", action |-> "Set"],
     [id |-> "DIR", spelling |-> "-d", action |-> "Set"],
     [id |-> "COMPLY", spelling |-> "-c", action |-> "SetTrue"],
     [id |-> "VERSION_ONLY", spelling |-> "-x", action |-> "SetTrue"]}

\* the command lines: any of the declared spellings, and one that is not
ArgVectors == SUBSET ({a.spelling : a \in build_cli} \cup {"--json"})

\* what main does with the matches, in order: the lookups before the
\* packages are checked, the checking, and the lookups after it
MainSteps ==
    <<[by |-> "get_one", id |-> "INCLUDE"],
      [by |-> "get_flag", id |-> "DRY_RUN"],
      [by |-> "get_flag", id |-> "COMPLY"],
      [by |-> "get_flag", id |-> "VERSION_ONLY"],
      [by |-> "get_flag", id |-> "UPDATE_CHECKSUM"],
      [by |-> "get_one", id |-> "DIR"],
      [by |-> "get_one", id |-> "FILE"],
      [by |-> "check", id |-> ""],
      [by |-> "get_one", id |-> "LOG"],
      [by |-> "get_one", id |-> "JSON"]>>

InitMain ==
    /\ \E argv \in ArgVectors, debug_assertions \in BOOLEAN :
          main = [pc |-> "get_matches", argv |-> argv,
                  debug_assertions |-> debug_assertions,
                  matches |-> <<>>, next |-> 1, checked |-> FALSE]
    /\ job = NoJob
    /\ files = <<>>
    /\ dry_run = TRUE
    /\ tree = <<>>
    /\ current = 0
    /\ reported = <<>>
    /\ workers = <<>>
    /\ completed = <<>>
    /\ results = [collected |-> FALSE]
    /\ call = NoCall
    /\ outcome = NoReturn
    /\ input = [lines |-> <<>>, trailer |-> NoBytes]
    /\ pktpc = "idle"
    /\ manifest = NoResult
    /\ refs = NoRefs
    /\ config = <<>>
    /\ pc = "idle"
    /\ checker = NoChecker
    /\ built = 0
    /\ invoked = 0
    /\ github_token = "unread"
    /\ requests = <<>>
    /\ resp = NoResponse
    /\ result = Running

\* Command::get_matches: the process exits on a spelling that is not
\* declared; otherwise every declared id has its entry, a flag true or
\* false, an option given or not
get_matches(argv) ==
    IF \E s \in argv : \A a \in build_cli : a.spelling # s
    THEN [ok |-> FALSE, matches |-> <<>>]
    ELSE [ok |-> TRUE,
          matches |-> [id \in {a.id : a \in build_cli} |->
                          LET arg == CHOOSE a \in build_cli : a.id = id
                          IN  IF arg.action = "SetTrue"
                              THEN [some |-> TRUE, value |-> arg.spelling \in argv]
                              ELSE [some |-> arg.spelling \in argv, value |-> TRUE]]]

\* ArgMatches::get_one: the entry of a declared id; an id that is not
\* declared panics where debug assertions are compiled in and is None
\* where they are not
get_one(matches, id, debug_assertions) ==
    IF id \in DOMAIN matches THEN [panic |-> FALSE, some |-> matches[id].some]
    ELSE IF debug_assertions THEN [panic |-> TRUE, some |-> FALSE]
    ELSE [panic |-> FALSE, some |-> FALSE]

\* ArgMatches::get_flag: get_one, and a panic when there is no value
get_flag(matches, id, debug_assertions) ==
    LET flag(one) == [panic |-> one.panic \/ ~one.some, some |-> one.some]
    IN  flag(get_one(matches, id, debug_assertions))

\* let args = cli::build_cli().get_matches()
GetMatches ==
    /\ main.pc = "get_matches"
    /\ LET got(m) == IF m.ok THEN [main EXCEPT !.pc = "lookup", !.matches = m.matches]
                     ELSE [main EXCEPT !.pc = "exited"]
       IN  main' = got(get_matches(main.argv))
    /\ UNCHANGED <<job, files, dry_run, tree, current, reported, workers, completed, results>>
    /\ UNCHANGED <<pktvars, chkvars, funvars>>

\* the next of main's steps: a lookup, which may panic, or the checking
MainStep ==
    /\ main.pc = "lookup"
    /\ LET step == MainSteps[main.next]
           looked(r) ==
               IF r.panic THEN [main EXCEPT !.pc = "panicked"]
               ELSE [main EXCEPT !.next = @ + 1,
                                 !.checked = @ \/ step.by = "check",
                                 !.pc = IF main.next = Len(MainSteps) THEN "returned" ELSE @]
       IN  main' = looked(IF step.by = "get_flag"
                            THEN get_flag(main.matches, step.id, main.debug_assertions)
                          ELSE IF step.by = "get_one"
                            THEN get_one(main.matches, step.id, main.debug_assertions)
                          ELSE [panic |-> FALSE, some |-> TRUE])
    /\ UNCHANGED <<job, files, dry_run, tree, current, reported, workers, completed, results>>
    /\ UNCHANGED <<pktvars, chkvars, funvars>>

NextMain == GetMatches \/ MainStep

SpecMain == InitMain /\ [][NextMain]_vars

----------------------------------------------------------------------------
(* Properties of the decoder *)

Line(k) == LineTable[input.lines[k]]

NLines == Len(input.lines)

\* the index of the first line of the advertisement that is no line of the
\* grammar, or NLines + 1 when every line is one
FirstBad ==
    LET bad == {k \in 1..NLines : ~Line(k).wellformed}
    IN  IF bad = {} THEN NLines + 1 ELSE Min(bad)

\* the <<token, payload>> pairs the server put on the first n lines
SentPairs(n) == [k \in 1..n |-> <<Line(k).tok, Line(k).payload>>]

\* the bytes of the advertisement from line k on
BytesFrom(k) ==
    Flatten([j \in 1..(NLines - k + 1) |-> Line(k + j - 1).bytes])
        \o input.trailer

\* C4: the decoder fails on an empty advertisement and on every
\* advertisement that holds a line that does not match the grammar, also
\* when that line follows well-formed lines: it never succeeds with the
\* references that precede the malformed line.
C4_MalformedLineFailsHard ==
    (pktpc = "collected" /\ (NLines = 0 \/ FirstBad <= NLines)) => ~refs.ok

\* C5: the revision of every emitted Branch is the object id of the line it
\* comes from, without the pkt-line length prefix.
C5_BranchRevisionIsObjectId ==
    (pktpc = "collected" /\ refs.ok) =>
        \A i \in DOMAIN refs.refs :
            refs.refs[i].kind = "Heads" =>
                \E k \in 1..NLines :
                    /\ Line(k).wellformed
                    /\ Line(k).oid = refs.refs[i].rev

\* C6: on n >= 1 well-formed lines followed by bytes that form no line
\* (nothing, a flush packet, or a malformed line and what follows it),
\* parse_git_manifest returns the n <<token, payload>> pairs in order and
\* unchanged, and leaves exactly the trailing bytes unconsumed.
C6_ManifestPairsAndRemainder ==
    (pktpc # "input" /\ FirstBad > 1) =>
        /\ manifest.ok
        /\ manifest.out = SentPairs(FirstBad - 1)
        /\ manifest.rest = BytesFrom(FirstBad)

C6_Witness ==
    /\ pktpc = "parsed"
    /\ input.lines = <<"service", "tag110_crlf", "master">>
    /\ input.trailer = FlushPkt
    /\ manifest.ok
    /\ Len(manifest.out) = 3
    /\ manifest.rest = FlushPkt

\* the number of emitted references equal to r
Emitted(r) == Cardinality({i \in DOMAIN refs.refs : refs.refs[i] = r})

\* C7: no emitted reference comes from a payload that ends in ^{}: no
\* emitted name ends in ^{}, there are no more references than decoded
\* lines without the suffix, and a tag name is emitted at most as often as
\* a line names that tag directly.
C7_NoPeeledTags ==
    (pktpc = "collected" /\ refs.ok) =>
        /\ \A i \in DOMAIN refs.refs :
                ~ends_with(refs.refs[i].name, PeeledSuffix)
        /\ Len(refs.refs) <=
                Cardinality({k \in 1..(FirstBad - 1) :
                                ~ends_with(Line(k).payload, PeeledSuffix)})
        /\ \A i \in DOMAIN refs.refs :
                refs.refs[i].kind = "Tag" =>
                    Emitted(refs.refs[i]) <=
                        Cardinality({k \in 1..(FirstBad - 1) :
                            Line(k).refname =
                                RefsTagsPrefix \o refs.refs[i].name})

C7_Witness ==
    /\ pktpc = "collected"
    /\ input.lines = <<"tag19", "tag19_peeled">>
    /\ refs.ok
    /\ refs.refs = <<Tag(Names.v19)>>

\* what a line contributes when it is classified by its reference name
ByRefName(l) ==
    IF ends_with(l.refname, PeeledSuffix) THEN <<>>
    ELSE IF starts_with(l.refname, RefsTagsPrefix)
            /\ from_utf8_ok(l.refname)
         THEN <<Tag(Drop(l.refname, Len(RefsTagsPrefix)))>>
    ELSE IF starts_with(l.refname, RefsHeadsPrefix)
            /\ from_utf8_ok(l.refname)
         THEN <<Heads(Drop(l.refname, Len(RefsHeadsPrefix)), l.tok)>>
    ELSE <<>>

\* C8: every decoded line is classified by its reference name alone: the
\* emitted references are, in input order, Tag(n) for refs/tags/n and
\* Branch(n, first field) for refs/heads/n, with no capability text in n.
C8_ClassifiedByRefName ==
    (pktpc = "collected" /\ refs.ok) =>
        refs.refs = Flatten([k \in 1..(FirstBad - 1) |-> ByRefName(Line(k))])

----------------------------------------------------------------------------
(* Properties of check_update *)

\* the strategy a type value names, "none" for any other value
StrategyOf(ty) ==
    IF ty = TyAnitya THEN "anitya"
    ELSE IF ty = TyGitHub THEN "github"
    ELSE IF ty = TyGitLab THEN "gitlab"
    ELSE IF ty = TyGitWeb THEN "gitweb"
    ELSE IF ty = TyGit THEN "git"
    ELSE IF ty = TyHTML THEN "html"
    ELSE "none"

\* the keys a strategy requires
RequiredKeys(strategy) ==
    CASE strategy = "anitya" -> {"id"}
      [] strategy \in {"github", "gitlab"} -> {"repo"}
      [] strategy \in {"gitweb", "git"} -> {"url"}
      [] strategy = "html" -> {"url", "pattern"}
      [] OTHER -> {}

IsNumeral(s) == s # <<>> /\ \A k \in DOMAIN s : s[k] \in 48..57

\* the validations of a Config: a known type, the keys its strategy
\* requires, a numeric id for anitya
Valid(cfg) ==
    /\ "type" \in DOMAIN cfg
    /\ StrategyOf(cfg["type"]) # "none"
    /\ RequiredKeys(StrategyOf(cfg["type"])) \subseteq DOMAIN cfg
    /\ StrategyOf(cfg["type"]) = "anitya" => IsNumeral(cfg["id"])

\* C1: check_update fails, with no strategy constructed and no request sent,
\* on a Config without type, with an unknown type or without a key its
\* strategy requires (for anitya, with an id that is no number); on every
\* other Config exactly one strategy, the one the type names, is constructed
\* and its check is called once.
C1_ValidationBeforeConstruction ==
    pc \in {"check", "response", "done"} =>
        IF Valid(config)
        THEN /\ built = 1
             /\ invoked = 1
             /\ checker.ty = StrategyOf(config["type"])
        ELSE /\ pc = "done"
             /\ ~result.ok
             /\ built = 0
             /\ invoked = 0
             /\ checker = NoChecker
             /\ requests = <<>>

\* C1: an html Config with url and without pattern has been refused
C1_Witness ==
    /\ pc = "done"
    /\ Get(config, "type") = TyHTML
    /\ DOMAIN config = {"type", "url"}
    /\ ~result.ok
    /\ requests = <<>>

\* C2: a successful check returns one string and that string is not empty.
C2_ResultNeverEmpty ==
    (pc = "done" /\ result.ok) => result.val # <<>>

\* the HTTP status of the response is not 2xx
NonSuccess(r) == ~r.failed /\ r.status \notin 200..299

\* C3: in all six backends a response with a non-2xx status makes the check
\* fail with the HTTP-status error.
C3_NonSuccessStatusFails ==
    (pc = "done" /\ requests # <<>> /\ NonSuccess(resp)) =>
        (~result.ok /\ result.err = "HTTP status")

\* the references a Git response decodes to
Decoded(r) == collect_git_refs(Bytes(r.body.adv))

\* a Git check that got a response it went on to decode
GitDecoded ==
    /\ pc = "done"
    /\ checker.ty = "git"
    /\ ~resp.failed
    /\ ~error_for_status(resp.status)
    /\ Decoded(resp).ok

\* the places of the decoded branches named name
BranchesNamed(decoded, name) ==
    {k \in DOMAIN decoded :
        decoded[k].kind = "Heads" /\ decoded[k].name = name}

\* C9: with branch = B the Git check returns the revision string of the
\* first decoded branch whose name is exactly B, whatever tags, other
\* branches and pattern there are, and fails when no decoded branch is
\* named B.
C9_BranchExactMatch ==
    (GitDecoded /\ checker.branch # Absent) =>
        LET decoded == Decoded(resp).refs
            named == BranchesNamed(decoded, checker.branch)
        IN  IF named = {} THEN ~result.ok
            ELSE result = Ok(decoded[Min(named)].rev)

\* C9: the branch master was found behind master-next and a tag
C9_Witness ==
    /\ GitDecoded
    /\ checker.branch = Names.master
    /\ resp.body.adv.lines = <<"master_next", "tag9", "master">>
    /\ result.ok
    /\ result.val = LineTable["master"].tok

\* the candidates of the tag arm: the names of the decoded tags, after the
\* pattern when there is one
TagCandidates(c, decoded) ==
    LET IsTag(x) == x.kind = "Tag"
        tags == SelectSeq(decoded, IsTag)
        names == [k \in DOMAIN tags |-> tags[k].name]
    IN  IF c.pattern = Absent THEN names
        ELSE extract_versions(c.pattern, names).out

\* C10: without branch the Git check fails when no tag candidate remains and
\* otherwise returns a candidate that version_compare ranks below no
\* candidate.
C10_HighestTag ==
    (GitDecoded /\ checker.branch = Absent) =>
        LET candidates == TagCandidates(checker, Decoded(resp).refs)
        IN  IF candidates = <<>> THEN ~result.ok
            ELSE /\ result.ok
                 /\ \E k \in DOMAIN candidates : candidates[k] = result.val
                 /\ \A k \in DOMAIN candidates :
                       version_compare(result.val, candidates[k]) # "Less"

\* a check that selects among tag names has read the names its upstream
\* lists
ReadNames ==
    /\ pc = "done"
    /\ requests # <<>>
    /\ ~resp.failed
    /\ CASE checker.ty = "github" ->
                /\ checker.branch = Absent
                /\ ~error_for_status(resp.status)
                /\ resp.body.decoded
          [] checker.ty = "gitlab" -> resp.body.decoded
          [] checker.ty = "gitweb" -> resp.content_length <= BodyLimit
          [] checker.ty = "git" ->
                /\ checker.branch = Absent
                /\ ~error_for_status(resp.status)
                /\ Decoded(resp).ok
          [] OTHER -> FALSE

\* the names the upstream lists, in its order
ListedNames ==
    IF checker.ty = "git"
    THEN TagCandidates([pattern |-> Absent], Decoded(resp).refs)
    ELSE resp.body.names

IsElement(x, list) == \E k \in DOMAIN list : list[k] = x

\* C14: in GitHub tags, GitLab, GitWeb and Git tags the candidates after a
\* pattern are extract_versions(pattern, listed names): the check fails
\* when that list is empty and otherwise returns one of its elements (the
\* first-group text when the pattern has a capture group).
C14_PatternIsExtractVersions ==
    (ReadNames /\ checker.pattern # Absent /\ Regex_new(checker.pattern).ok)
        => LET candidates == extract_versions(checker.pattern, ListedNames).out
           IN  IF candidates = <<>> THEN ~result.ok
               ELSE result.ok /\ IsElement(result.val, candidates)

\* an HTML check has read the page and found a first group in every match
\* of its pattern
ReadPage ==
    /\ pc = "done"
    /\ requests # <<>>
    /\ checker.ty = "html"
    /\ ~resp.failed
    /\ resp.content_length <= BodyLimit
    /\ ~error_for_status(resp.status)
    /\ Regex_new(checker.pattern).ok
    /\ \A k \in DOMAIN captures_iter(Regex_new(checker.pattern).re,
                                     HtmlText(resp.body.names)) :
          captures_iter(Regex_new(checker.pattern).re,
                        HtmlText(resp.body.names))[k].has1

\* the candidates GitWeb and HTML select among
SelectionCandidates ==
    IF checker.ty = "html"
    THEN LET matches == captures_iter(Regex_new(checker.pattern).re,
                                      HtmlText(resp.body.names))
         IN  [k \in DOMAIN matches |-> matches[k].g1]
    ELSE IF checker.pattern = Absent THEN resp.body.names
    ELSE extract_versions(checker.pattern, resp.body.names).out

\* a GitWeb or HTML check has reached its selection
Selecting ==
    \/ ReadPage
    \/ /\ ReadNames
       /\ checker.ty = "gitweb"
       /\ checker.pattern # Absent => Regex_new(checker.pattern).ok

\* C15: GitWeb and HTML return the only candidate unchanged, with several
\* candidates return one that no other candidate compares Greater than,
\* and fail with none.
C15_SelectionHighest ==
    Selecting =>
        LET candidates == SelectionCandidates
        IN  IF candidates = <<>> THEN ~result.ok
            ELSE IF Len(candidates) = 1 THEN result = Ok(candidates[1])
            ELSE /\ result.ok
                 /\ IsElement(result.val, candidates)
                 /\ \A k \in DOMAIN candidates :
                       version_compare(candidates[k], result.val) # "Greater"

\* C16: GitLab and GitHub tags apply the pattern before they select: with
\* sort_version = true they return a filtered tag that no filtered tag
\* compares Greater than, with sort_version absent or of any other value
\* the first filtered tag in the order of the server, and they fail when
\* no tag is left.
C16_FilterThenSelect ==
    (/\ ReadNames
     /\ checker.ty \in {"github", "gitlab"}
     /\ checker.pattern # Absent => Regex_new(checker.pattern).ok)
        => LET filtered ==
                 IF checker.pattern = Absent THEN ListedNames
                 ELSE extract_versions(checker.pattern, ListedNames).out
           IN  IF filtered = <<>> THEN ~result.ok
               ELSE IF Get(config, "sort_version") = StrTrue
               THEN /\ result.ok
                    /\ IsElement(result.val, filtered)
                    /\ \A k \in DOMAIN filtered :
                          version_compare(filtered[k], result.val) # "Greater"
               ELSE result = Ok(filtered[1])

\* an Anitya check has decoded the response
AnityaRead ==
    /\ pc = "done"
    /\ requests # <<>>
    /\ checker.ty = "anitya"
    /\ ~resp.failed
    /\ ~error_for_status(resp.status)
    /\ resp.body.decoded

\* C17: Anitya fails when the id of the response is not the requested one,
\* whatever the lists hold; otherwise it returns the first element of
\* stable_versions when stable_only is true or absent and the first element
\* of versions when stable_only is false, and fails when that list is
\* empty.
C17_AnityaSelectedList ==
    AnityaRead =>
        IF resp.body.id # checker.id
        THEN ~result.ok
        ELSE LET selected ==
                    IF Get(config, "stable_only") \in {Absent, StrTrue}
                    THEN resp.body.stable_versions
                    ELSE resp.body.versions
             IN  IF selected = <<>> THEN ~result.ok
                 ELSE result = Ok(selected[1])

\* C17: with stable_only false and matching ids the first of versions was
\* returned though stable_versions begins with another string
C17_Witness ==
    /\ AnityaRead
    /\ Get(config, "stable_only") = S(<<"f","a","l","s","e">>)
    /\ resp.body.id = checker.id
    /\ resp.body.stable_versions = <<NoBytes>>
    /\ resp.body.versions = <<Names.v9>>
    /\ result = Ok(Names.v9)

\* a GitHub check has ended in an environment without GITHUB_TOKEN
GitHubWithoutToken ==
    pc = "done" /\ checker.ty = "github" /\ github_token = "unset"

\* every request to GitHub carries the authorization header
AllAuthorized ==
    \A k \in DOMAIN requests :
        requests[k].to = "github" => requests[k].authorization

\* C18 (as stated): without GITHUB_TOKEN both GitHub paths fail with the
\* missing-credential error and send no request; no request goes to GitHub
\* without the authorization header.
C18_NoTokenNoRequest ==
    /\ GitHubWithoutToken =>
            /\ result = Err("GitHub checker requires authentication!")
            /\ requests = <<>>
    /\ AllAuthorized

\* C18 (amended): without GITHUB_TOKEN both GitHub paths fail and send no
\* request, with the missing-credential error unless an earlier step of
\* the check, the split of the repository slug, has failed already; no
\* request goes to GitHub without the authorization header.
C18_NoTokenNoRequestAfterSlug ==
    /\ GitHubWithoutToken =>
            /\ ~result.ok
            /\ requests = <<>>
            /\ has_repo_name(checker.repo) =>
                    result = Err("GitHub checker requires authentication!")
    /\ AllAuthorized

\* C18: the branch path of a GitHub check with owner and name has ended
\* without GITHUB_TOKEN
C18_Witness ==
    /\ GitHubWithoutToken
    /\ checker.branch # Absent
    /\ has_repo_name(checker.repo)
    /\ requests = <<>>
    /\ result = Err("GitHub checker requires authentication!")

\* a GitWeb or HTML check got a response that declares more than 10 MiB
TooLarge ==
    /\ pc = "done"
    /\ requests # <<>>
    /\ checker.ty \in {"gitweb", "html"}
    /\ ~resp.failed
    /\ resp.content_length > 10 * 1024 * 1024

\* C19: GitWeb and HTML fail with the body-too-large error, and so return
\* no version, whenever the response declares a content length above
\* 10 MiB, whatever the status and the body are.
C19_LargeBodyRefused ==
    TooLarge => result = Err("HTML body too large")

\* C19: a page of 10 MiB + 1 that lists a version and has status 200 was
\* refused by GitWeb
C19_Witness ==
    /\ TooLarge
    /\ checker.ty = "gitweb"
    /\ resp.status = 200
    /\ resp.body.names = <<Names.v9>>
    /\ ~result.ok

\* the request of the check failed: no response, a status that is not
\* 2xx, or a body that does not deserialize
RequestFailed == resp.failed \/ NonSuccess(resp) \/ ~resp.body.decoded

\* C22: a check sends at most one request, and after a transport failure,
\* a non-success status or an undecodable body it returns an error without
\* another request.
C22_OneRequestNoRetry ==
    /\ Len(requests) <= 1
    /\ (pc = "done" /\ requests # <<>> /\ RequestFailed) => ~result.ok

----------------------------------------------------------------------------
(* Properties of version_compare and extract_versions *)

Compared == call.fn = "version_compare" /\ outcome.returned

\* C11: version_compare(a, b) is the reverse of version_compare(b, a) and
\* version_compare(a, a) is Equal, whether the semantic comparison or the
\* byte-wise fallback decides
C11_ReverseAndReflexive ==
    Compared => /\ outcome.ab = Flip(outcome.ba)
                /\ outcome.aa = "Equal"

\* C11: a string the semantic comparison accepts has been compared, both
\* ways, with one it rejects
C11_Witness ==
    /\ Compared
    /\ call.a = Names.v10 /\ call.b = Names.date
    /\ compare(call.a, call.a).ok /\ ~compare(call.a, call.b).ok
    /\ outcome.ab = "Less" /\ outcome.ba = "Greater"

\* C12: version_compare is transitive: if a is not Greater than b and b is
\* not Greater than c then a is not Greater than c, also when some pairs
\* are decided semantically and others by the fallback
C12_Transitive ==
    Compared =>
        (outcome.ab # "Greater" /\ outcome.bc # "Greater"
            => outcome.ac # "Greater")

Extracted == call.fn = "extract_versions" /\ outcome.returned

AllVersionBytes(s) == \A k \in DOMAIN s : s[k] \in VersionBytes

StartsWithV(s) == s # <<>> /\ s[1] = 118

\* what the patterns of Calls accept, read off the patterns themselves
Accepts(pattern, s) ==
    IF pattern = PatPlain THEN s # <<>> /\ AllVersionBytes(s)
    ELSE IF pattern = PatCapture
    THEN AllVersionBytes(IF StartsWithV(s) THEN Tail(s) ELSE s)
    ELSE IF pattern = PatOptional
    THEN StartsWithV(s) /\ AllVersionBytes(Tail(s))
    ELSE FALSE

HasGroup(pattern) == pattern \in {PatCapture, PatOptional}

\* the text of the first group of an accepted string: what follows the v
GroupText(s) == IF StartsWithV(s) THEN Tail(s) ELSE s

\* whether the first group took part in accepting s
GroupTookPart(pattern, s) == pattern = PatCapture \/ GroupText(s) # <<>>

\* C13 (as stated): with a capture group the result holds, in input order,
\* the first-group text of every string the pattern matches and nothing for
\* the others; without one it holds exactly the matching strings, whole; it
\* is never longer than the collection
C13_EveryMatchExtracted ==
    Extracted /\ outcome.versions.ok =>
        /\ outcome.versions.out =
             Flatten([k \in DOMAIN call.collection |->
                IF ~Accepts(call.pattern, call.collection[k]) THEN <<>>
                ELSE IF HasGroup(call.pattern)
                THEN <<GroupText(call.collection[k])>>
                ELSE <<call.collection[k]>>])
        /\ Len(outcome.versions.out) <= Len(call.collection)

\* C13 (amended): as stated, but with a capture group the result holds the
\* first-group text of the matching strings in whose match the group took
\* part; a matching string whose match left the group out is dropped
C13_MatchesWithGroupExtracted ==
    Extracted /\ outcome.versions.ok =>
        /\ outcome.versions.out =
             Flatten([k \in DOMAIN call.collection |->
                IF ~Accepts(call.pattern, call.collection[k]) THEN <<>>
                ELSE IF ~HasGroup(call.pattern) THEN <<call.collection[k]>>
                ELSE IF GroupTookPart(call.pattern, call.collection[k])
                THEN <<GroupText(call.collection[k])>>
                ELSE <<>>])
        /\ Len(outcome.versions.out) <= Len(call.collection)

\* C13: a pattern with a group has been applied to a string it matches
\* with the group, one it matches without the group and one it rejects
C13_Witness ==
    /\ Extracted
    /\ call.pattern = PatOptional
    /\ call.collection = <<Names.vv10, Names.v, Names.beta>>
    /\ outcome.versions = [ok |-> TRUE, out |-> <<Names.v10>>]

----------------------------------------------------------------------------
(* Properties of compily_with_aosc *)

Complied == call.fn = "compily_with_aosc" /\ outcome.returned

\* the lower-cased version compily_with_aosc was called on
Lowered == to_lowercase(call.base \o call.sep \o call.suffix)

\* the class of a version by the stated precedence
ClassOf(v) ==
    IF matches_whole(REGEX_RELEASE_TYPES, v) THEN "ReleaseTypes"
    ELSE IF matches_whole(REGEX_DASHES, v) THEN "Dashes"
    ELSE IF matches_whole(REGEX_UNDERSCORES, v) THEN "Underscores"
    ELSE IF matches_whole(REGEX_LETTER_NOTATION, v) THEN "LetterNotation"
    ELSE IF matches_whole(REGEX_REVISION, v) THEN "Revision"
    ELSE "Normal"

SeparatorBytes == {Ascii[c] : c \in {"-", "_", "~", "+", "^"}}

\* v with each separator byte replaced by the byte with
Separated(v, with) == [k \in DOMAIN v |-> IF v[k] \in SeparatorBytes THEN with ELSE v[k]]

\* the number of v, a tilde, and v from its first letter on
TildeSuffix(v) ==
    Take(v, PrefixLen(v, VersionBytes)) \o <<Ascii["~"]>> \o Drop(v, PrefixLenNot(v, 97..122))

\* what the class of the lower-cased version makes of it
Styled(v, class) ==
    IF class = "Normal" THEN v
    ELSE IF class = "LetterNotation" THEN SelectSeq(v, LAMBDA c : c \notin SeparatorBytes)
    ELSE IF class \in {"Dashes", "Underscores"} THEN Separated(v, Ascii["."])
    ELSE IF class = "Revision" THEN Separated(v, Ascii["+"])
    ELSE TildeSuffix(v)

\* C23: compily_with_aosc lower-cases the version, classifies it with the
\* precedence ReleaseTypes, Dashes, Underscores, LetterNotation, Revision,
\* Normal, and rewrites it by its class: Normal unchanged, LetterNotation
\* without its separator, Dashes and Underscores with a dot for every
\* separator, Revision with a plus for its separator, ReleaseTypes with its
\* suffix introduced by a single tilde whether or not a separator was there.
C23_RewrittenByClass ==
    Complied => outcome.version = Styled(Lowered, ClassOf(Lowered))

----------------------------------------------------------------------------
(* Properties of parse_check_update *)

Parsed == call.fn = "parse_check_update" /\ outcome.returned

\* the CHKUPDATE value has the form T::k1=v1;...;kn=vn: at least one pair,
\* keys of alphanumerics and "_", no ";" in a value, no key twice, none "type"
WellFormedLine ==
    /\ call.pairs # <<>>
    /\ \A k \in DOMAIN call.pairs :
          /\ call.pairs[k][1] # <<>>
          /\ \A j \in DOMAIN call.pairs[k][1] :
                call.pairs[k][1][j] \in AlnumBytes \cup {Ascii["_"]}
          /\ \A j \in DOMAIN call.pairs[k][2] : call.pairs[k][2][j] # Ascii[";"]
          /\ call.pairs[k][1] # S(<<"t", "y", "p", "e">>)
    /\ \A j, k \in DOMAIN call.pairs :
          call.pairs[j][1] = call.pairs[k][1] => j = k

\* C24: for a CHKUPDATE value T::k1=v1;...;kn=vn (n >= 1, no "::" in T, keys
\* of alphanumerics and "_", no ";" in a value), to which the worker appends
\* one ";", the Config maps "type" to T and each ki to vi.
C24_ConfigOfLine ==
    (Parsed /\ WellFormedLine) =>
        /\ outcome.config.ok
        /\ DOMAIN outcome.config.context =
              {S(<<"t", "y", "p", "e">>)} \cup {call.pairs[k][1] : k \in DOMAIN call.pairs}
        /\ outcome.config.context[S(<<"t", "y", "p", "e">>)] = call.type
        /\ \A k \in DOMAIN call.pairs :
              outcome.config.context[call.pairs[k][1]] = call.pairs[k][2]

----------------------------------------------------------------------------
(* Properties of check_update_worker *)

\* C25: check_update_worker leaves the spec file as it is when dry_run is
\* set, when the resolved version (trimmed, one leading "v" stripped,
\* rewritten if compliance is asked for) equals the recorded one, and when
\* parsing, dispatch or the check fails; the file is written at most once,
\* and only after a successful check that gave a different version.
C25_DescriptorWrittenOnce ==
    [][/\ job'.file # job.file => job'.writes = job.writes + 1
       /\ job'.writes # job.writes =>
             /\ job.writes = 0
             /\ ~dry_run
             /\ job.checked
             /\ job.new_version # job.current_version]_vars

\* a package whose answer " v1.2\n" against the recorded 1.2~rc1 went into
\* the file, which lost its REL line
C25_Witness ==
    /\ job.pc = "returned"
    /\ job.ret = "Ok"
    /\ job.writes = 1
    /\ ~dry_run
    /\ job.current_version = S(<<"1", ".", "2", "~", "r", "c", "1">>)
    /\ job.file.VER = S(<<"1", ".", "2">>)
    /\ ~job.file.REL

----------------------------------------------------------------------------
(* Properties of main's lookups *)

\* C26: every argument id that main looks up is declared by build_cli, so
\* whatever command line the CLI accepts, no lookup fails (main does not
\* panic in one) and main goes on to check the packages.
C26_NoLookupFails ==
    /\ main.pc # "panicked"
    /\ main.pc \in {"lookup", "returned"} =>
          \A k \in 1..(main.next - 1) :
             MainSteps[k].by # "check" => \E a \in build_cli : a.id = MainSteps[k].id

----------------------------------------------------------------------------
(* Properties of the batch *)

\* whether the check of a package fails
Fails(f) == f.kind \in {"no_chkupdate", "check_fails"}

Begun == {i \in DOMAIN files : reported[i] # 0}

\* C21: in every interleaving the counter is one more than the number of
\* packages begun, the progress numbers of the packages begun are pairwise
\* distinct and never above the total, and once all are begun they are
\* exactly 1..N and the counter is N + 1.
C21_ProgressNumbers ==
    /\ current = Cardinality(Begun) + 1
    /\ \A i \in Begun : reported[i] \in 1..Len(files)
    /\ \A i, j \in Begun : reported[i] = reported[j] => i = j
    /\ results.collected =>
          /\ {reported[i] : i \in DOMAIN files} = 1..Len(files)
          /\ current = Len(files) + 1

\* C21: three packages were begun by two threads at work at once, the
\* last of the list first
C21_Witness ==
    /\ results.collected
    /\ Len(files) = 3
    /\ reported = <<3, 2, 1>>
    /\ current = 4

=============================================================================
